---- MODULE Spec2Model ----
(***************************************************************************)
(* Model of src/tools/browser/visiblePage.ts: VisibleTextTool,             *)
(* VisibleHtmlTool, VisibleTagTool, LocatorTool and ExpectTextTool.        *)
(*                                                                         *)
(* An execute is asynchronous: it runs up to its first awaited driver call, *)
(* the driver call is carried out in the browser at some later step, and   *)
(* the continuation of the execute runs at a later step still.  Other      *)
(* executes and the page itself may take steps in between.                 *)
(*                                                                         *)
(* JavaScript strings are sequences of one-character strings, so that      *)
(* trim, slice, startsWith, includes, toUpperCase, the regular expressions, *)
(* the serialization of the DOM to HTML and the parsing of HTML are         *)
(* computed character by character.  A value that may be null is a          *)
(* sequence of length 0 (null) or 1 (the value).                            *)
(***************************************************************************)
EXTENDS Integers, Sequences, FiniteSets, TLC

VARIABLES
  browser,       \* context.browser: "missing" | "disconnected" | "connected"
  page,          \* context.page: "missing" | "closed" | "open"
  evalFails,     \* whether the driver's calls reject although the page is open
  cfgSource,     \* VISIBLE_TAG_CONFIG_PATH and the file behind it
  dom,           \* the elements under document.body, in document order
  args,          \* the arguments the caller passes (maxLength, selector, text, ...)
  generated,     \* what ijs.generateSelector returns for the looked-up element
  concurrency,   \* how many executes the caller lets run at the same time
  calls,         \* the executes in flight: each one's arguments, locals and position
  returned,      \* the execute that returned last, with its response and side effects
  result,        \* the array the last tagging pass produced in the page
  tagged,        \* the element each record of result was created for
  prevDom,       \* the elements as they were when the last tagging pass began
  prevResult,    \* the array the tagging pass before the last one produced
  passes,        \* tagging passes run in the page so far
  streak,        \* tagging passes run since the last DOM mutation (at most 2)
  mutations,     \* changes made by the page itself so far
  located        \* LocatorTool's last querySelector: the id, the element (0: none),
                 \* and whether the page is still as the lookup found it

vars == <<browser, page, evalFails, cfgSource, dom, args, generated,
          concurrency, calls, returned, result, tagged, prevDom, prevResult,
          passes, streak, mutations, located>>

-----------------------------------------------------------------------------
(* Bounds of the model. *)

MaxElems == 3

MaxPasses == 2

MaxContentLen == 3

MaxSelectors == 3

MaxMutations == 1

-----------------------------------------------------------------------------
(* JavaScript string primitives. *)

NULL == << >>

Some(s) == << s >>

\* JavaScript truthiness of a string-or-null: null and "" are falsy.
Truthy(x) == x # NULL /\ x[1] # << >>

\* a || b
JsOr(a, b) == IF Truthy(a) THEN a ELSE b

\* s || null
StrOrNull(s) == IF s = << >> THEN NULL ELSE Some(s)

\* (x || ""), always a string
OrEmpty(x) == IF Truthy(x) THEN x[1] ELSE << >>

WhiteSpace == {" ", "\t", "\n"}

SetMin(S) == CHOOSE x \in S : \A y \in S : x <= y

SetMax(S) == CHOOSE x \in S : \A y \in S : x >= y

\* The least element of a set of indexes, or none for the empty set.
First(S, none) == IF S = {} THEN none ELSE SetMin(S)

\* The first index from p on whose character is in chars; Len(s) + 1 if none.
Find(s, p, chars) == First({i \in p..Len(s) : s[i] \in chars}, Len(s) + 1)

\* The first index from p on whose character is not in chars.
FindNot(s, p, chars) == First({i \in p..Len(s) : s[i] \notin chars}, Len(s) + 1)

\* The last index up to p whose character is not in chars; 0 if none.
FindLastNot(s, p, chars) == p - First({k \in 0..(p - 1) : s[p - k] \notin chars}, p)

\* String.prototype.trim
Trim(s) == SubSeq(s, FindNot(s, 1, WhiteSpace), FindLastNot(s, Len(s), WhiteSpace))

\* String.prototype.slice(start, end) for integer arguments
Slice(s, start, end) ==
  LET n    == Len(s)
      from == IF start < 0 THEN (IF n + start < 0 THEN 0 ELSE n + start)
              ELSE (IF start > n THEN n ELSE start)
      to   == IF end < 0 THEN (IF n + end < 0 THEN 0 ELSE n + end)
              ELSE (IF end > n THEN n ELSE end)
  IN  IF from >= to THEN << >> ELSE SubSeq(s, from + 1, to)

StartsWith(s, p) == Len(s) >= Len(p) /\ SubSeq(s, 1, Len(p)) = p

Includes(s, k) == \E i \in 0..(Len(s) - Len(k)) : SubSeq(s, i + 1, i + Len(k)) = k

LowerCase == <<"a","b","c","d","e","f","g","h","i","j","k","l","m",
               "n","o","p","q","r","s","t","u","v","w","x","y","z">>

UpperCase == <<"A","B","C","D","E","F","G","H","I","J","K","L","M",
               "N","O","P","Q","R","S","T","U","V","W","X","Y","Z">>

ToUpperChar(c) ==
  IF \E i \in 1..26 : LowerCase[i] = c
  THEN UpperCase[CHOOSE i \in 1..26 : LowerCase[i] = c]
  ELSE c

\* String.prototype.toUpperCase
ToUpperCase(s) == [i \in 1..Len(s) |-> ToUpperChar(s[i])]

ToLowerChar(c) ==
  IF \E i \in 1..26 : UpperCase[i] = c
  THEN LowerCase[CHOOSE i \in 1..26 : UpperCase[i] = c]
  ELSE c

\* String.prototype.toLowerCase, and the ASCII lower-casing of the HTML parser
ToLowerCase(s) == [i \in 1..Len(s) |-> ToLowerChar(s[i])]

\* The concatenation of the strings of a sequence.
RECURSIVE Concat(_)
Concat(texts) == IF texts = << >> THEN << >> ELSE Head(texts) \o Concat(Tail(texts))

Digits == <<"0","1","2","3","4","5","6","7","8","9">>

\* String(n) for a non-negative integer
RECURSIVE ToDecimal(_)
ToDecimal(n) ==
  IF n < 10 THEN << Digits[n + 1] >>
  ELSE ToDecimal(n \div 10) \o << Digits[(n % 10) + 1] >>

-----------------------------------------------------------------------------
(* Elements.  dom[i] is the i-th element under body in document order      *)
(* (pre-order); dom[i].parent is the index of its parent, 0 for body.      *)
(* visibility, display and opacity are the computed values the tools       *)
(* compare: "hidden" or "visible", "none" or "block" (any other value),    *)
(* "0" or "1" (any other value).                                           *)

S_DIV == <<"D","I","V">>

S_INPUT == <<"I","N","P","U","T">>

S_SPAN == <<"S","P","A","N">>

S_SVG == <<"s","v","g">>

S_BODY == <<"B","O","D","Y">>

S_HTML == <<"H","T","M","L">>

S_SCRIPT == <<"S","C","R","I","P","T">>

S_STYLE == <<"S","T","Y","L","E">>

S_META == <<"M","E","T","A">>

S_Search == <<"S","e","a","r","c","h">>

S_Hello == <<" ","H","e","l","l","o"," ">>

S_icon_delete_btn == <<"i","c","o","n","-","d","e","l","e","t","e","-","b","t","n">>

S_delete == <<"d","e","l","e","t","e">>

S_sidebar == <<"s","i","d","e","b","a","r">>

S_q == <<"q">>

S_X == <<"X">>

S_Y == <<" ","Y"," ">>

S_blank == <<" ","\t">>

\* A plain visible element with no attribute, class or text.
Elem(tag) ==
  [ parent |-> 0, tagName |-> tag, html |-> TRUE, rects |-> 1,
    visibility |-> "visible", display |-> "block", opacity |-> "1",
    placeholder |-> NULL, dataPlaceholder |-> NULL, ariaLabel |-> NULL,
    name |-> NULL, title |-> NULL, id |-> NULL,
    classList |-> << >>, childTexts |-> << >>, dataTagId |-> NULL ]

\* document.body: an ancestor of every element, never visited by the walker.
BodyElement == Elem(S_BODY)

\* document.documentElement: the parent of body, the last element closest() tries.
HtmlElement == Elem(S_HTML)

\* The element at index i: 0 is body and -1 is the root element <html>.
NodeAt(d, i) ==
  IF i = -1 THEN HtmlElement
  ELSE IF i = 0 THEN BodyElement
  ELSE d[i]

\* The element, its ancestors under body, body and <html>.
RECURSIVE AncestorsOrSelf(_, _)
AncestorsOrSelf(d, i) ==
  IF i = -1 THEN {-1}
  ELSE IF i = 0 THEN {0, -1}
  ELSE {i} \cup AncestorsOrSelf(d, d[i].parent)

-----------------------------------------------------------------------------
(* The functions page.evaluate runs in VisibleTagTool.execute. *)

\* Element.matches for the selector forms the model covers: a type selector,
\* a class selector and the attribute-presence selector [data-tag-id].  In an
\* HTML document a type selector is compared without regard to case with an
\* HTML element (whose tagName is its name in upper case) and exactly, as
\* written, with an element of another namespace such as <svg>.
Matches(sel, el) ==
  CASE sel.kind = "tag"   -> IF el.html THEN ToUpperCase(sel.name) = el.tagName
                             ELSE sel.name = el.tagName
    [] sel.kind = "class" -> \E c \in 1..Len(el.classList) : el.classList[c] = sel.name
    [] sel.kind = "attr"  -> el.dataTagId # NULL

\* el.closest(sel) !== null
Closest(d, i, sel) == \E a \in AncestorsOrSelf(d, i) : Matches(sel, NodeAt(d, a))

isExcluded(d, i, cfg) ==
  \E s \in 1..Len(cfg.excludedSelectors) : Closest(d, i, cfg.excludedSelectors[s])

getSpecialTagText(el, cfg) ==
  LET tagName == ToUpperCase(el.tagName)
  IN  IF \E t \in 1..Len(cfg.specialTagNames) :
            ToUpperCase(cfg.specialTagNames[t]) = tagName
      THEN Some(tagName) ELSE NULL

getPlaceholderOrNameText(el) ==
  LET placeholder ==
        StrOrNull(Trim(OrEmpty(JsOr(el.placeholder, el.dataPlaceholder))))
      aria == StrOrNull(Trim(OrEmpty(el.ariaLabel)))
      name == StrOrNull(Trim(OrEmpty(el.name)))
      val  == JsOr(JsOr(placeholder, aria), name)
  IN  IF Truthy(val) THEN Some(el.tagName \o <<":">> \o val[1]) ELSE NULL

\* el instanceof HTMLInputElement || HTMLTextAreaElement || HTMLSelectElement
IsFormControl(el) ==
  /\ el.html
  /\ el.tagName \in { S_INPUT,
                      <<"T","E","X","T","A","R","E","A">>,
                      <<"S","E","L","E","C","T">> }

getFormControlText(el) ==
  IF IsFormControl(el)
  THEN LET text == JsOr(JsOr(Some(Trim(OrEmpty(el.title))),
                             Some(Trim(OrEmpty(el.id)))), NULL)
       IN  IF Truthy(text) THEN Some(el.tagName \o <<":">> \o text[1]) ELSE NULL
  ELSE NULL

S_icon_ == <<"i","c","o","n","-">>

getIconClassText(el, cfg) ==
  LET kws  == cfg.iconClassKeywords
      hits == { p \in (1..Len(el.classList)) \X (1..Len(kws)) :
                  /\ StartsWith(el.classList[p[1]], S_icon_)
                  /\ Includes(el.classList[p[1]], kws[p[2]]) }
  IN  IF hits = {} THEN NULL
      ELSE LET c == SetMin({p[1] : p \in hits})
               k == SetMin({p[2] : p \in {h \in hits : h[1] = c}})
           IN  Some(kws[k])

getDirectText(el, cfg) ==
  LET ok == { n \in 1..Len(el.childTexts) : Trim(el.childTexts[n]) # << >> }
  IN  IF ok = {} THEN NULL
      ELSE Some(Slice(Trim(el.childTexts[SetMin(ok)]), 0, cfg.directTextMaxLen))

isVisible(el) ==
  IF ~el.html THEN FALSE
  ELSE IF el.rects = 0 THEN FALSE
  ELSE ~(el.visibility = "hidden" \/ el.display = "none" \/ el.opacity = "0")

\* SignalText with the form-control strategy tried before placeholder/aria/name.
SignalTextFormFirst(el, cfg) ==
  JsOr(JsOr(JsOr(getSpecialTagText(el, cfg), getFormControlText(el)),
            getPlaceholderOrNameText(el)),
       getIconClassText(el, cfg))

\* The first four strategies, chained with ||.
SignalText(el, cfg) ==
  JsOr(JsOr(JsOr(getSpecialTagText(el, cfg), getPlaceholderOrNameText(el)),
            getFormControlText(el)),
       getIconClassText(el, cfg))

\* MarkerText without the isExcluded test before the direct-text fallback.
MarkerTextNoExclusion(d, i, cfg) ==
  LET first == SignalText(d[i], cfg)
  IN  IF ~Truthy(first) THEN getDirectText(d[i], cfg) ELSE first

\* markerText of element i as the loop body computes it on the DOM d.
MarkerText(d, i, cfg) ==
  LET first == SignalText(d[i], cfg)
  IN  IF ~Truthy(first) /\ ~isExcluded(d, i, cfg)
      THEN getDirectText(d[i], cfg)
      ELSE first

\* The TreeWalker loop from element i on: idCounter, the DOM with the
\* data-tag-id attributes written so far, the records and their elements.
RECURSIVE TagWalk(_, _, _, _, _, _)
TagWalk(i, d, cfg, idCounter, results, els) ==
  IF i > Len(d) THEN [dom |-> d, results |-> results, tagged |-> els]
  ELSE IF ~isVisible(d[i]) THEN TagWalk(i + 1, d, cfg, idCounter, results, els)
  ELSE LET markerText == MarkerText(d, i, cfg)
       IN  IF Truthy(markerText)
           THEN LET id == ToDecimal(idCounter)
                IN  TagWalk(i + 1, [d EXCEPT ![i].dataTagId = Some(id)], cfg,
                            idCounter + 1,
                            Append(results, [id |-> id, text |-> markerText[1]]),
                            Append(els, i))
           ELSE TagWalk(i + 1, d, cfg, idCounter, results, els)

\* TagPass with idCounter starting at 0.
TagPassFromZero(d, cfg) == TagWalk(1, d, cfg, 0, << >>, << >>)

\* let idCounter = 1, then the loop from the walker's first element
TagPass(d, cfg) == TagWalk(1, d, cfg, 1, << >>, << >>)

-----------------------------------------------------------------------------
(* readVisibleTagConfig.  cfgSource is the environment variable, the file   *)
(* and, when the file parses, the JSON value in it.                         *)

DefaultDirectTextMaxLen == 10

\* No configuration: readVisibleTagConfig threw, or has not been called.
NoConfig ==
  [excludedSelectors |-> << >>, iconClassKeywords |-> << >>,
   specialTagNames |-> << >>, directTextMaxLen |-> 0]

\* [threw, error, config]
readVisibleTagConfig(src) ==
  LET none == NoConfig
  IN
  IF src.env = "unset"
  THEN [threw |-> TRUE, error |-> "VISIBLE_TAG_CONFIG_PATH is not set", config |-> none]
  ELSE IF src.file = "absent"
  THEN [threw |-> TRUE, error |-> "Config file not found", config |-> none]
  ELSE IF src.file = "unparsable"
  THEN [threw |-> TRUE, error |-> "JSON.parse: SyntaxError", config |-> none]
  ELSE IF \/ ~src.json.excludedIsArray
          \/ ~src.json.iconIsArray
          \/ ~src.json.specialIsArray
  THEN [threw |-> TRUE,
        error |-> "Invalid config: 'excludedSelectors', 'iconClassKeywords' and 'specialTagNames' must be arrays.",
        config |-> none]
  ELSE [threw |-> FALSE, error |-> "",
        config |->
          [excludedSelectors |-> src.json.excludedSelectors,
           iconClassKeywords |-> src.json.iconClassKeywords,
           specialTagNames   |-> src.json.specialTagNames,
           directTextMaxLen  |->
             IF src.json.directTextMaxLen.isNumber /\ src.json.directTextMaxLen.value > 0
             THEN src.json.directTextMaxLen.value
             ELSE DefaultDirectTextMaxLen]]

-----------------------------------------------------------------------------
(* Responses. *)

NoText == << >>

createErrorResponse(msg) == [kind |-> "error", msg |-> msg, count |-> 0, body |-> NoText]

createSuccessResponse(msg, count, body) ==
  [kind |-> "success", msg |-> msg, count |-> count, body |-> body]

\* execute rejected: the error escaped as an exception.
Thrown(msg) == [kind |-> "thrown", msg |-> msg, count |-> 0, body |-> NoText]

NoResponse == [kind |-> "none", msg |-> "", count |-> 0, body |-> NoText]

NotConnectedMsg ==
  "Browser is not connected. The connection has been reset - please retry your navigation."

PageClosedMsg ==
  "Page is not available or has been closed. Please retry your navigation."

NoEffects == [resets |-> 0, evals |-> 0, cfgReads |-> 0, writes |-> 0]

\* BrowserToolBase.safeExecute, from the specification (base.js is not part
\* of the source): it runs the operation on the page and converts a failure
\* of the operation to an error response; a connectivity failure is surfaced
\* together with the reset of the browser state.  call is the execute that
\* called it, outcome what the operation returned or threw.
safeExecute(call, outcome) ==
  IF ~outcome.threw THEN [call EXCEPT !.response = outcome.response]
  ELSE IF outcome.cause = "disconnected"
  THEN [call EXCEPT !.fx.resets = @ + 1,
                    !.response = createErrorResponse(outcome.error)]
  ELSE [call EXCEPT !.response = createErrorResponse(outcome.error)]

-----------------------------------------------------------------------------
(* Truncation of VisibleTextTool and VisibleHtmlTool. *)

DefaultMaxLength == 20000

TextMarker ==
  <<"\n", "[", "O", "u", "t", "p", "u", "t", " ", "t", "r", "u", "n", "c", "a", "t",
    "e", "d", " ", "d", "u", "e", " ", "t", "o", " ", "s", "i", "z", "e", " ", "l",
    "i", "m", "i", "t", "s", "]">>

HtmlMarker ==
  <<"\n", "<", "!", "-", "-", " ", "O", "u", "t", "p", "u", "t", " ", "t", "r", "u",
    "n", "c", "a", "t", "e", "d", " ", "d", "u", "e", " ", "t", "o", " ", "s", "i",
    "z", "e", " ", "l", "i", "m", "i", "t", "s", " ", "-", "-", ">">>

\* A value of args.maxLength: absent, a string, or a number, which is an
\* integer, NaN or Infinity.
Integer(n) == [type |-> "number", value |-> n]

NaN == [type |-> "NaN", value |-> 0]

Infinity == [type |-> "Infinity", value |-> 0]

\* typeof m === 'number'
IsNumber(m) == m.type \in {"number", "NaN", "Infinity"}

\* typeof args.maxLength === 'number' ? args.maxLength : 20000
EffectiveMaxLength(a) ==
  IF IsNumber(a.maxLength) THEN a.maxLength ELSE Integer(DefaultMaxLength)

\* n > m for an integer n and a number m: no number is greater than NaN or
\* Infinity.
GreaterThan(n, m) == m.type = "number" /\ n > m.value

\* n >= m
GreaterOrEqual(n, m) == m.type = "number" /\ n >= m.value

\* n <= m + k for integers n and k and a number m
AtMost(n, m, k) ==
  \/ m.type = "Infinity"
  \/ m.type = "number" /\ n <= m.value + k

\* Truncate with >= for >: a content of exactly maxLength characters is cut.
TruncateAtEqual(text, maxLength, marker) ==
  IF GreaterOrEqual(Len(text), maxLength)
  THEN Slice(text, 0, maxLength.value) \o marker
  ELSE text

\* if (output.length > maxLength) output = output.slice(0, maxLength) + marker
Truncate(text, maxLength, marker) ==
  IF GreaterThan(Len(text), maxLength)
  THEN Slice(text, 0, maxLength.value) \o marker
  ELSE text

-----------------------------------------------------------------------------
(* LocatorTool.sanitizeSelectors. *)

\* The characters hasBadChars and cleanSelector match (control characters
\* U+0000-001F and U+007F-009F, the private use area U+E000-F8FF and
\* U+FFF0-FFFF) among the characters the model uses; "U+0001" and "U+E000"
\* stand for the single characters with these code points.
BadChars == {"\t", "\n", "U+0001", "U+E000"}

\* \s among the characters the model uses
RegexSpace == {" ", "\t", "\n"}

hasBadChars(sel) == \E i \in 1..Len(sel) : sel[i] \in BadChars

cleanSelector(sel) == SelectSeq(sel, LAMBDA c : c \notin BadChars)

\* !/=\s*""/.test(sel)
isValid(sel) ==
  ~ \E i \in 1..Len(sel) : \E j \in (i + 1)..(Len(sel) - 1) :
        /\ sel[i] = "="
        /\ \A k \in (i + 1)..(j - 1) : sel[k] \in RegexSpace
        /\ sel[j] = "\""
        /\ sel[j + 1] = "\""

\* Array.prototype.findIndex over the indices in S, 0 standing for -1
FindIndex(S) == IF S = {} THEN 0 ELSE SetMin(S)

\* Array.isArray(result?.selectors) ? result.selectors : [result?.selector].filter(Boolean)
SelectorsOf(res) ==
  IF res.selectorsIsArray THEN res.selectors
  ELSE IF Truthy(res.selector) THEN << res.selector[1] >> ELSE << >>

PreferredIndex(selectors) ==
  LET cleaned == [i \in 1..Len(selectors) |-> cleanSelector(selectors[i])]
      first   == FindIndex({i \in 1..Len(selectors) :
                              ~hasBadChars(selectors[i]) /\ isValid(selectors[i])})
      second  == IF first = 0
                 THEN FindIndex({i \in 1..Len(selectors) :
                                   isValid(cleaned[i]) /\ Len(Trim(cleaned[i])) > 0})
                 ELSE first
  IN  IF second = 0 THEN 1 ELSE second

sanitizeSelectors(res) ==
  LET selectors == SelectorsOf(res)
  IN  IF Len(selectors) = 0 THEN << >>
      ELSE LET cleaned == [i \in 1..Len(selectors) |-> cleanSelector(selectors[i])]
               preferredIndex == PreferredIndex(selectors)
               rest == SelectSeq([i \in 1..Len(selectors) |-> i],
                                 LAMBDA i : i # preferredIndex)
           IN  << cleaned[preferredIndex] >> \o [k \in 1..Len(rest) |-> cleaned[rest[k]]]

\* document.querySelector("[data-tag-id='<id>']"): the first match in document order
QuerySelectorTagId(d, id) ==
  FindIndex({i \in 1..Len(d) : d[i].dataTagId = Some(id)})

-----------------------------------------------------------------------------
(* Markup.  The page is an HTML document with a doctype and an empty head;  *)
(* the elements of dom are the element children of body and their          *)
(* descendants.  An element's attributes are, in this order, placeholder,  *)
(* data-placeholder, aria-label, name, title, id, class, style and         *)
(* data-tag-id; its style is set inline and holds the declarations that    *)
(* differ from the browser's defaults; its text nodes come before its      *)
(* child elements.                                                         *)
(*                                                                         *)
(* A node of a document tree is an element, a text node or a comment.      *)

TextNode(s) ==
  [kind |-> "text", name |-> << >>, attrs |-> << >>, children |-> << >>, data |-> s]

CommentNode(s) ==
  [kind |-> "comment", name |-> << >>, attrs |-> << >>, children |-> << >>, data |-> s]

ElementNode(name, attrs, children) ==
  [kind |-> "element", name |-> name, attrs |-> attrs, children |-> children,
   data |-> << >>]

Attr(name, value) == [name |-> name, value |-> value]

\* ASCII whitespace of the HTML syntax
HtmlSpace == {" ", "\t", "\n", "\f", "\r"}

\* Elements serialized without content or end tag.
VoidElements ==
  { <<"a","r","e","a">>, <<"b","a","s","e">>, <<"b","a","s","e","f","o","n","t">>, <<"b","g","s","o","u","n","d">>, <<"b","r">>, <<"c","o","l">>, <<"e","m","b","e","d">>, <<"f","r","a","m","e">>,
    <<"h","r">>, <<"i","m","g">>, <<"i","n","p","u","t">>, <<"k","e","y","g","e","n">>, <<"l","i","n","k">>, <<"m","e","t","a">>, <<"p","a","r","a","m">>, <<"s","o","u","r","c","e">>,
    <<"t","r","a","c","k">>, <<"w","b","r">> }

\* Elements whose text is serialized as it is.
RawTextElements ==
  { <<"s","t","y","l","e">>, <<"s","c","r","i","p","t">>, <<"x","m","p">>, <<"i","f","r","a","m","e">>, <<"n","o","e","m","b","e","d">>, <<"n","o","f","r","a","m","e","s">>, <<"n","o","s","c","r","i","p","t">>,
    <<"p","l","a","i","n","t","e","x","t">> }

\* "Escaping a string" of the HTML fragment serialization algorithm.
EscapeChar(c, attributeMode) ==
  IF c = "&" THEN <<"&","a","m","p",";">>
  ELSE IF c = "U+00A0" THEN <<"&","n","b","s","p",";">>
  ELSE IF c = "\"" /\ attributeMode THEN <<"&","q","u","o","t",";">>
  ELSE IF c = "<" /\ ~attributeMode THEN <<"&","l","t",";">>
  ELSE IF c = ">" /\ ~attributeMode THEN <<"&","g","t",";">>
  ELSE << c >>

Escape(s, attributeMode) ==
  IF \A i \in 1..Len(s) : EscapeChar(s[i], attributeMode) = << s[i] >> THEN s
  ELSE Concat([i \in 1..Len(s) |-> EscapeChar(s[i], attributeMode)])

RECURSIVE SerializeAttrs(_)
SerializeAttrs(attrs) ==
  IF attrs = << >> THEN << >>
  ELSE <<" ">> \o Head(attrs).name \o <<"=","\"">> \o Escape(Head(attrs).value, TRUE) \o <<"\"">>
       \o SerializeAttrs(Tail(attrs))

\* The HTML fragment serialization algorithm: a node and, for an element
\* that is not void, its children between its start and end tags.
RECURSIVE SerializeNode(_, _)
RECURSIVE SerializeChildren(_, _)
SerializeNode(n, raw) ==
  IF n.kind = "text" THEN (IF raw THEN n.data ELSE Escape(n.data, FALSE))
  ELSE IF n.kind = "comment" THEN <<"<","!","-","-">> \o n.data \o <<"-","-",">">>
  ELSE <<"<">> \o n.name \o SerializeAttrs(n.attrs) \o <<">">>
       \o (IF n.name \in VoidElements THEN << >>
           ELSE SerializeChildren(n.children, n.name \in RawTextElements)
                \o <<"<","/">> \o n.name \o <<">">>)

SerializeChildren(nodes, raw) ==
  IF nodes = << >> THEN << >>
  ELSE SerializeNode(Head(nodes), raw) \o SerializeChildren(Tail(nodes), raw)

\* The elements of a set of indexes in increasing order.
RECURSIVE InOrder(_)
InOrder(S) == IF S = {} THEN << >> ELSE << SetMin(S) >> \o InOrder(S \ {SetMin(S)})

\* The child elements of element i (0: body) in document order.
ChildrenOf(d, i) == InOrder({j \in 1..Len(d) : d[j].parent = i})

\* Elements the browser's style sheet does not display.
UndisplayedElements == { S_SCRIPT, S_STYLE, S_META }

RECURSIVE Join(_, _)
Join(parts, sep) ==
  IF parts = << >> THEN << >>
  ELSE IF Len(parts) = 1 THEN parts[1]
  ELSE parts[1] \o sep \o Join(Tail(parts), sep)

\* The inline style of an element: the declarations behind the computed
\* values the tools read.
StyleOf(el) ==
  Join((IF el.visibility = "hidden" THEN << <<"v","i","s","i","b","i","l","i","t","y",":"," ","h","i","d","d","e","n",";">> >> ELSE << >>)
       \o (IF el.display = "none" /\ el.tagName \notin UndisplayedElements
           THEN << <<"d","i","s","p","l","a","y",":"," ","n","o","n","e",";">> >> ELSE << >>)
       \o (IF el.opacity = "0" THEN << <<"o","p","a","c","i","t","y",":"," ","0",";">> >> ELSE << >>),
       <<" ">>)

OptAttr(name, v) == IF v = NULL THEN << >> ELSE << Attr(name, v[1]) >>

\* el.attributes
AttrsOf(el) ==
  OptAttr(<<"p","l","a","c","e","h","o","l","d","e","r">>, el.placeholder)
  \o OptAttr(<<"d","a","t","a","-","p","l","a","c","e","h","o","l","d","e","r">>, el.dataPlaceholder)
  \o OptAttr(<<"a","r","i","a","-","l","a","b","e","l">>, el.ariaLabel)
  \o OptAttr(<<"n","a","m","e">>, el.name)
  \o OptAttr(<<"t","i","t","l","e">>, el.title)
  \o OptAttr(<<"i","d">>, el.id)
  \o (IF el.classList = << >> THEN << >>
      ELSE << Attr(<<"c","l","a","s","s">>, Join(el.classList, <<" ">>)) >>)
  \o (IF StyleOf(el) = << >> THEN << >> ELSE << Attr(<<"s","t","y","l","e">>, StyleOf(el)) >>)
  \o OptAttr(<<"d","a","t","a","-","t","a","g","-","i","d">>, el.dataTagId)

\* The name a start tag is written with: the local name, in lower case for an
\* HTML element.
LocalName(el) == IF el.html THEN ToLowerCase(el.tagName) ELSE el.tagName

\* The node of element i of the page with its subtree; 0 is body and -1 the
\* root element.
RECURSIVE NodeOf(_, _)
NodeOf(d, i) ==
  IF i = -1
  THEN ElementNode(<<"h","t","m","l">>, << >>, << ElementNode(<<"h","e","a","d">>, << >>, << >>), NodeOf(d, 0) >>)
  ELSE LET kids  == ChildrenOf(d, i)
           below == [k \in 1..Len(kids) |-> NodeOf(d, kids[k])]
       IN  IF i = 0 THEN ElementNode(<<"b","o","d","y">>, << >>, below)
           ELSE ElementNode(LocalName(d[i]), AttrsOf(d[i]),
                            [k \in 1..Len(d[i].childTexts) |-> TextNode(d[i].childTexts[k])]
                            \o below)

\* el.outerHTML
OuterHTML(d, i) == SerializeNode(NodeOf(d, i), FALSE)

Doctype == <<"<","!","D","O","C","T","Y","P","E"," ","h","t","m","l",">">>

\* page.content(): the doctype followed by document.documentElement.outerHTML
PageContent(d) == Doctype \o OuterHTML(d, -1)

-----------------------------------------------------------------------------
(* DOMParser.parseFromString(html, 'text/html').  The tokenizer and the    *)
(* tree construction of the HTML parser for documents made of a doctype,   *)
(* comments, text, character references of the five escaped characters,    *)
(* html, head and body, script, style and title, void elements and         *)
(* ordinary elements such as div and span.  Paragraphs, lists, tables,     *)
(* formatting elements and foreign content have rules of their own and are *)
(* not in the pages of the model.                                          *)

IsLetter(c) == \E i \in 1..26 : LowerCase[i] = c \/ UpperCase[i] = c

StartsAt(s, p, pat) ==
  /\ p >= 1
  /\ p + Len(pat) - 1 <= Len(s)
  /\ SubSeq(s, p, p + Len(pat) - 1) = pat

\* The first index from p on where pat begins; Len(s) + 1 if none.
FindSeq(s, p, pat) == First({i \in p..Len(s) : StartsAt(s, i, pat)}, Len(s) + 1)

CharRefs ==
  << [ref |-> <<"&","a","m","p",";">>, char |-> "&"], [ref |-> <<"&","l","t",";">>, char |-> "<"],
     [ref |-> <<"&","g","t",";">>, char |-> ">"], [ref |-> <<"&","q","u","o","t",";">>, char |-> "\""],
     [ref |-> <<"&","n","b","s","p",";">>, char |-> "U+00A0"] >>

\* Character references in text and attribute values.
RECURSIVE Unescape(_)
Unescape(s) ==
  LET Replaced(a, r) ==
        SubSeq(s, 1, a - 1) \o << CharRefs[r].char >>
        \o Unescape(SubSeq(s, a + Len(CharRefs[r].ref), Len(s)))
      Reference(a, r) ==
        IF r = 0 THEN SubSeq(s, 1, a) \o Unescape(SubSeq(s, a + 1, Len(s)))
        ELSE Replaced(a, r)
      Ampersand(a) ==
        IF a > Len(s) THEN s
        ELSE Reference(a, First({r \in 1..Len(CharRefs) : StartsAt(s, a, CharRefs[r].ref)}, 0))
  IN  Ampersand(Find(s, 1, {"&"}))

\* The attributes of a tag from index p on, up to its ">": the attributes,
\* the index after the tag, and whether the input ended inside the tag.  An
\* attribute begins at q, its name ends before e, its value begins at w and
\* ends before close.
RECURSIVE Attributes(_, _, _)
Attributes(s, p, acc) ==
  LET Add(name, value, after) ==
        Attributes(s, after,
                   IF \E k \in 1..Len(acc) : acc[k].name = name THEN acc
                   ELSE Append(acc, Attr(name, Unescape(value))))
      Quoted(q, e, w, close) ==
        Add(ToLowerCase(SubSeq(s, q, e - 1)), SubSeq(s, w + 1, close - 1), close + 1)
      Unquoted(q, e, w, close) ==
        Add(ToLowerCase(SubSeq(s, q, e - 1)), SubSeq(s, w, close - 1), close)
      Value(q, e, w) ==
        IF w <= Len(s) /\ s[w] \in {"\"", "'"}
        THEN Quoted(q, e, w, Find(s, w + 1, {s[w]}))
        ELSE Unquoted(q, e, w, Find(s, w, HtmlSpace \cup {">"}))
      AfterName(q, e, v) ==
        IF v <= Len(s) /\ s[v] = "="
        THEN Value(q, e, FindNot(s, v + 1, HtmlSpace))
        ELSE Add(ToLowerCase(SubSeq(s, q, e - 1)), << >>, e)
      Name(q, e) == AfterName(q, e, FindNot(s, e, HtmlSpace))
      Begin(q) ==
        IF q > Len(s) THEN [attrs |-> acc, next |-> q, eof |-> TRUE]
        ELSE IF s[q] = ">" THEN [attrs |-> acc, next |-> q + 1, eof |-> FALSE]
        ELSE Name(q, Find(s, q + 1, HtmlSpace \cup {"/", ">", "="}))
  IN  Begin(FindNot(s, p, HtmlSpace \cup {"/"}))

Token(type, name, attrs, data) ==
  [type |-> type, name |-> name, attrs |-> attrs, data |-> data]

\* Elements whose content the tokenizer reads as text up to their end tag.
RawTextNames == { <<"s","c","r","i","p","t">>, <<"s","t","y","l","e">> }

\* The same, with character references.
RcDataNames == { <<"t","i","t","l","e">> }

\* Where the end tag of the raw text element name begins, from p on.
FindEndTag(s, p, name) ==
  First({i \in p..Len(s) :
           /\ StartsAt(s, i, <<"<","/">>)
           /\ i + 2 + Len(name) <= Len(s)
           /\ ToLowerCase(SubSeq(s, i + 2, i + 1 + Len(name))) = name
           /\ s[i + 2 + Len(name)] \in HtmlSpace \cup {"/", ">"}},
        Len(s) + 1)

\* The token that begins at index p, if the characters there make one, and
\* the index after it.  A raw text element is one token of type "raw" that
\* carries its text.
Lexed(tokens, next) == [tokens |-> tokens, next |-> next]

Lex(s, p) ==
  LET One(type, name, attrs, data, next) ==
        Lexed(<< Token(type, name, attrs, data) >>, next)
      Text(e) == One("text", << >>, << >>, Unescape(SubSeq(s, p, e - 1)), e)
      Comment(from, e, after) == One("comment", << >>, << >>, SubSeq(s, from, e - 1), after)
      RawText(name, a, close) ==
        One("raw", name, a.attrs,
            IF name \in RcDataNames THEN Unescape(SubSeq(s, a.next, close - 1))
            ELSE SubSeq(s, a.next, close - 1),
            IF close > Len(s) THEN close
            ELSE Attributes(s, close + 2 + Len(name), << >>).next)
      StartTag(name, a) ==
        IF a.eof THEN Lexed(<< >>, a.next)
        ELSE IF name \in RawTextNames \cup RcDataNames
        THEN RawText(name, a, FindEndTag(s, a.next, name))
        ELSE One("start", name, a.attrs, << >>, a.next)
      EndTag(name, a) ==
        IF a.eof THEN Lexed(<< >>, a.next)
        ELSE One("end", name, << >>, << >>, a.next)
      Tag(from, e) ==
        IF from = p + 1
        THEN StartTag(ToLowerCase(SubSeq(s, from, e - 1)), Attributes(s, e, << >>))
        ELSE EndTag(ToLowerCase(SubSeq(s, from, e - 1)), Attributes(s, e, << >>))
      Bogus(from, e) == Comment(from, e, e + 1)
      Closed(e) == Comment(p + 4, e, e + 3)
  IN
  IF s[p] # "<" THEN Text(Find(s, p, {"<"}))
  ELSE IF p = Len(s) THEN One("text", << >>, << >>, <<"<">>, p + 1)
  ELSE IF IsLetter(s[p + 1]) THEN Tag(p + 1, Find(s, p + 1, HtmlSpace \cup {"/", ">"}))
  ELSE IF s[p + 1] = "/"
  THEN IF p + 2 > Len(s) THEN One("text", << >>, << >>, <<"<","/">>, p + 2)
       ELSE IF IsLetter(s[p + 2]) THEN Tag(p + 2, Find(s, p + 2, HtmlSpace \cup {"/", ">"}))
       ELSE IF s[p + 2] = ">" THEN Lexed(<< >>, p + 3)
       ELSE Bogus(p + 2, Find(s, p + 2, {">"}))
  ELSE IF s[p + 1] = "!"
  THEN IF StartsAt(s, p + 2, <<"-","-">>)
       THEN IF StartsAt(s, p + 4, <<">">>) THEN One("comment", << >>, << >>, << >>, p + 5)
            ELSE IF StartsAt(s, p + 4, <<"-",">">>) THEN One("comment", << >>, << >>, << >>, p + 6)
            ELSE Closed(FindSeq(s, p + 4, <<"-","-",">">>))
       ELSE IF p + 8 <= Len(s) /\ ToLowerCase(SubSeq(s, p + 2, p + 8)) = <<"d","o","c","t","y","p","e">>
       THEN One("doctype", << >>, << >>, << >>, Find(s, p + 9, {">"}) + 1)
       ELSE Bogus(p + 2, Find(s, p + 2, {">"}))
  ELSE IF s[p + 1] = "?" THEN Bogus(p + 1, Find(s, p + 1, {">"}))
  ELSE One("text", << >>, << >>, <<"<">>, p + 1)

\* The first n tokens from index p on, and the index after them.  (The
\* recursion is by halves, here and below, to keep the evaluation shallow.)
RECURSIVE TokensFrom(_, _, _)
TokensFrom(s, p, n) ==
  LET Then(first, second) == Lexed(first.tokens \o second.tokens, second.next)
      Rest(first) == Then(first, TokensFrom(s, first.next, n - (n \div 2)))
  IN  IF p > Len(s) \/ n = 0 THEN Lexed(<< >>, p)
      ELSE IF n = 1 THEN Lex(s, p)
      ELSE Rest(TokensFrom(s, p, n \div 2))

\* The tokens of s: there are no more of them than two for each "<" and one.
Tokenize(s) ==
  TokensFrom(s, 1, 2 * Cardinality({i \in 1..Len(s) : s[i] = "<"}) + 1).tokens

\* A node appended to a list of children; text joins the text node before it.
AppendNode(children, n) ==
  IF n.kind = "text" /\ children # << >> /\ children[Len(children)].kind = "text"
  THEN [children EXCEPT ![Len(children)].data = @ \o n.data]
  ELSE Append(children, n)

\* An element on the stack of open elements, with the children it has so far.
Open(name, attrs) == [name |-> name, attrs |-> attrs, children |-> << >>]

\* The current node gets one more child.
Insert(stack, n) == [stack EXCEPT ![Len(stack)].children = AppendNode(@, n)]

\* Elements are popped off the stack until n are left.
RECURSIVE PopTo(_, _)
PopTo(stack, n) ==
  LET Pop(top, rest) == Insert(rest, ElementNode(top.name, top.attrs, top.children))
  IN  IF Len(stack) <= n THEN stack
      ELSE PopTo(Pop(stack[Len(stack)], SubSeq(stack, 1, Len(stack) - 1)), n)

\* The attributes of a repeated <html> or <body> tag that the element lacks.
MergeAttrs(old, new) ==
  old \o SelectSeq(new, LAMBDA a : \A k \in 1..Len(old) : old[k].name # a.name)

\* The elements of the "special" category.
SpecialElements ==
  { <<"a","d","d","r","e","s","s">>, <<"a","r","e","a">>, <<"a","r","t","i","c","l","e">>, <<"a","s","i","d","e">>, <<"b","a","s","e">>, <<"b","l","o","c","k","q","u","o","t","e">>, <<"b","o","d","y">>,
    <<"b","r">>, <<"b","u","t","t","o","n">>, <<"c","e","n","t","e","r">>, <<"d","e","t","a","i","l","s">>, <<"d","i","r">>, <<"d","i","v">>, <<"d","l">>, <<"e","m","b","e","d">>,
    <<"f","i","e","l","d","s","e","t">>, <<"f","i","g","c","a","p","t","i","o","n">>, <<"f","i","g","u","r","e">>, <<"f","o","o","t","e","r">>, <<"f","o","r","m">>, <<"h","1">>, <<"h","2">>, <<"h","3">>,
    <<"h","4">>, <<"h","5">>, <<"h","6">>, <<"h","e","a","d">>, <<"h","e","a","d","e","r">>, <<"h","g","r","o","u","p">>, <<"h","r">>, <<"h","t","m","l">>, <<"i","f","r","a","m","e">>,
    <<"i","m","g">>, <<"i","n","p","u","t">>, <<"l","i","n","k">>, <<"m","a","i","n">>, <<"m","e","n","u">>, <<"m","e","t","a">>, <<"n","a","v">>, <<"n","o","s","c","r","i","p","t">>,
    <<"o","l">>, <<"p">>, <<"p","r","e">>, <<"s","c","r","i","p","t">>, <<"s","e","c","t","i","o","n">>, <<"s","e","l","e","c","t">>, <<"s","o","u","r","c","e">>, <<"s","t","y","l","e">>,
    <<"s","u","m","m","a","r","y">>, <<"t","a","b","l","e">>, <<"t","e","x","t","a","r","e","a">>, <<"t","i","t","l","e">>, <<"t","r","a","c","k">>, <<"u","l">>, <<"w","b","r">> }

\* The end tags that close the nearest open element of their name with
\* everything opened inside it.
BlockEndTags ==
  { <<"a","d","d","r","e","s","s">>, <<"a","r","t","i","c","l","e">>, <<"a","s","i","d","e">>, <<"b","l","o","c","k","q","u","o","t","e">>, <<"b","u","t","t","o","n">>, <<"c","e","n","t","e","r">>,
    <<"d","e","t","a","i","l","s">>, <<"d","i","r">>, <<"d","i","v">>, <<"d","l">>, <<"f","i","e","l","d","s","e","t">>, <<"f","i","g","c","a","p","t","i","o","n">>, <<"f","i","g","u","r","e">>,
    <<"f","o","o","t","e","r">>, <<"h","e","a","d","e","r">>, <<"h","g","r","o","u","p">>, <<"m","a","i","n">>, <<"m","e","n","u">>, <<"n","a","v">>, <<"o","l">>, <<"p","r","e">>,
    <<"s","e","c","t","i","o","n">>, <<"s","u","m","m","a","r","y">>, <<"u","l">> }

\* Start tags that are processed by the rules of the "in head" insertion mode.
HeadElements == { <<"b","a","s","e">>, <<"b","a","s","e","f","o","n","t">>, <<"b","g","s","o","u","n","d">>, <<"l","i","n","k">>, <<"m","e","t","a">> }

LeadingSpace(s) == SubSeq(s, 1, FindNot(s, 1, HtmlSpace) - 1)

AfterLeadingSpace(s) == SubSeq(s, FindNot(s, 1, HtmlSpace), Len(s))

\* The document before the first token: pre, head, mid, the body on the
\* stack of open elements and post become the children of the root element.
EmptyDocument ==
  [mode |-> "before html", htmlAttrs |-> << >>, pre |-> << >>, headAttrs |-> << >>,
   head |-> << >>, mid |-> << >>, stack |-> << >>, post |-> << >>]

\* The element a start tag or a raw text element creates, when it has no
\* content of its own to wait for.
Whole(t) ==
  ElementNode(t.name, t.attrs,
              IF t.type = "raw" /\ t.data # << >> THEN << TextNode(t.data) >> ELSE << >>)

\* The index of the last element on the stack, above the body, that an end
\* tag closes: the nearest of its name (for the other end tags, unless a
\* special element is open above it); 0 if there is none.
Closes(stack, name) ==
  LET Last(S) == IF S = {} THEN 0 ELSE SetMax(S)
      Unless(stop) == IF stop >= 2 /\ stack[stop].name = name THEN stop ELSE 0
  IN  IF name \in BlockEndTags
      THEN Last({i \in 2..Len(stack) : stack[i].name = name})
      ELSE Unless(Last({i \in 1..Len(stack) :
                          \/ stack[i].name = name
                          \/ stack[i].name \in SpecialElements}))

\* The tree construction stage for one token, by insertion mode; a token an
\* insertion mode does not take is processed again in the next mode.
RECURSIVE Step(_, _)
Step(t, st) ==
  LET again(mode) == Step(t, [st EXCEPT !.mode = mode])
      onRest(s2)  == Step([t EXCEPT !.data = AfterLeadingSpace(t.data)], s2)
      blank       == t.type = "text" /\ FindNot(t.data, 1, HtmlSpace) > Len(t.data)
      isStart(n)  == t.type = "start" /\ t.name = n
      isEnd(n)    == t.type = "end" /\ t.name = n
      strayEnd    == t.type = "end" /\ t.name \notin {<<"h","e","a","d">>, <<"b","o","d","y">>, <<"h","t","m","l">>, <<"b","r">>}
      merged      == [st EXCEPT !.htmlAttrs = MergeAttrs(@, t.attrs)]
      inHead      == \/ t.type = "start" /\ t.name \in HeadElements
                     \/ t.type = "raw" /\ t.name \in RawTextNames \cup RcDataNames
      spaced(part, lead) ==
        IF lead = << >> THEN st
        ELSE IF part = "head" THEN [st EXCEPT !.head = AppendNode(@, TextNode(lead))]
        ELSE [st EXCEPT !.mid = AppendNode(@, TextNode(lead))]
      closed(i)   == IF i = 0 THEN st ELSE [st EXCEPT !.stack = PopTo(@, i - 1)]
  IN
  IF t.type = "doctype" THEN st
  ELSE IF st.mode = "before html"
  THEN IF t.type = "comment" THEN st
       ELSE IF t.type = "text"
       THEN (IF blank THEN st ELSE onRest([st EXCEPT !.mode = "before head"]))
       ELSE IF isStart(<<"h","t","m","l">>)
       THEN [st EXCEPT !.htmlAttrs = t.attrs, !.mode = "before head"]
       ELSE IF strayEnd THEN st
       ELSE again("before head")
  ELSE IF st.mode = "before head"
  THEN IF t.type = "comment" THEN [st EXCEPT !.pre = Append(@, CommentNode(t.data))]
       ELSE IF t.type = "text"
       THEN (IF blank THEN st ELSE onRest([st EXCEPT !.mode = "in head"]))
       ELSE IF isStart(<<"h","t","m","l">>) THEN merged
       ELSE IF isStart(<<"h","e","a","d">>)
       THEN [st EXCEPT !.headAttrs = t.attrs, !.mode = "in head"]
       ELSE IF strayEnd THEN st
       ELSE again("in head")
  ELSE IF st.mode = "in head"
  THEN IF t.type = "comment" THEN [st EXCEPT !.head = Append(@, CommentNode(t.data))]
       ELSE IF t.type = "text"
       THEN (IF blank THEN spaced("head", t.data)
             ELSE onRest([spaced("head", LeadingSpace(t.data)) EXCEPT !.mode = "after head"]))
       ELSE IF isStart(<<"h","t","m","l">>) THEN merged
       ELSE IF inHead THEN [st EXCEPT !.head = Append(@, Whole(t))]
       ELSE IF isEnd(<<"h","e","a","d">>) THEN [st EXCEPT !.mode = "after head"]
       ELSE IF isStart(<<"h","e","a","d">>) \/ strayEnd THEN st
       ELSE again("after head")
  ELSE IF st.mode = "after head"
  THEN IF t.type = "comment" THEN [st EXCEPT !.mid = Append(@, CommentNode(t.data))]
       ELSE IF t.type = "text"
       THEN (IF blank THEN spaced("mid", t.data)
             ELSE onRest([spaced("mid", LeadingSpace(t.data)) EXCEPT
                            !.stack = << Open(<<"b","o","d","y">>, << >>) >>, !.mode = "in body"]))
       ELSE IF isStart(<<"h","t","m","l">>) THEN merged
       ELSE IF isStart(<<"b","o","d","y">>)
       THEN [st EXCEPT !.stack = << Open(<<"b","o","d","y">>, t.attrs) >>, !.mode = "in body"]
       ELSE IF inHead THEN [st EXCEPT !.head = Append(@, Whole(t))]
       ELSE IF isStart(<<"h","e","a","d">>) \/ strayEnd THEN st
       ELSE Step(t, [st EXCEPT !.stack = << Open(<<"b","o","d","y">>, << >>) >>, !.mode = "in body"])
  ELSE IF st.mode = "in body"
  THEN IF t.type = "comment"
       THEN [st EXCEPT !.stack = Insert(@, CommentNode(t.data))]
       ELSE IF t.type = "text"
       THEN [st EXCEPT !.stack = Insert(@, TextNode(t.data))]
       ELSE IF isStart(<<"h","t","m","l">>) THEN merged
       ELSE IF isStart(<<"b","o","d","y">>)
       THEN [st EXCEPT !.stack[1].attrs = MergeAttrs(@, t.attrs)]
       ELSE IF isStart(<<"h","e","a","d">>) THEN st
       ELSE IF t.type = "raw" \/ (t.type = "start" /\ t.name \in VoidElements)
       THEN [st EXCEPT !.stack = Insert(@, Whole(t))]
       ELSE IF t.type = "start"
       THEN [st EXCEPT !.stack = Append(@, Open(t.name, t.attrs))]
       ELSE IF isEnd(<<"b","o","d","y">>) THEN [st EXCEPT !.mode = "after body"]
       ELSE IF isEnd(<<"h","t","m","l">>) THEN again("after body")
       ELSE IF isEnd(<<"b","r">>)
       THEN [st EXCEPT !.stack = Insert(@, ElementNode(<<"b","r">>, << >>, << >>))]
       ELSE closed(Closes(st.stack, t.name))
  ELSE IF st.mode = "after body"
  THEN IF t.type = "comment" THEN [st EXCEPT !.post = Append(@, CommentNode(t.data))]
       ELSE IF blank THEN [st EXCEPT !.stack = Insert(@, TextNode(t.data))]
       ELSE IF isStart(<<"h","t","m","l">>) THEN merged
       ELSE IF isEnd(<<"h","t","m","l">>) THEN [st EXCEPT !.mode = "after after body"]
       ELSE again("in body")
  ELSE IF t.type = "comment" THEN st
       ELSE IF blank THEN [st EXCEPT !.stack = Insert(@, TextNode(t.data))]
       ELSE IF isStart(<<"h","t","m","l">>) THEN merged
       ELSE again("in body")

InsertionModes ==
  { "before html", "before head", "in head", "after head", "in body", "after body",
    "after after body" }

\* The tree construction stage over tokens lo to hi, from the document st the
\* tokens before them have built.
RECURSIVE TreeConstruction(_, _, _, _)
TreeConstruction(tokens, lo, hi, st) ==
  IF st.mode \notin InsertionModes \/ lo > hi THEN st
  ELSE IF lo = hi THEN Step(tokens[lo], st)
  ELSE TreeConstruction(tokens, ((lo + hi) \div 2) + 1, hi,
                        TreeConstruction(tokens, lo, (lo + hi) \div 2, st))

\* new DOMParser().parseFromString(html, 'text/html').documentElement
ParseFromString(html) ==
  LET Root(st, body) ==
        ElementNode(<<"h","t","m","l">>, st.htmlAttrs,
                    st.pre \o << ElementNode(<<"h","e","a","d">>, st.headAttrs, st.head) >> \o st.mid
                    \o << ElementNode(<<"b","o","d","y">>, body.attrs, body.children) >> \o st.post)
      Document(st) ==
        Root(st, IF st.stack = << >> THEN Open(<<"b","o","d","y">>, << >>) ELSE PopTo(st.stack, 1)[1])
      Constructed(tokens) ==
        Document(TreeConstruction(tokens, 1, Len(tokens), EmptyDocument))
  IN  Constructed(Tokenize(html))

\* querySelectorAll(name).forEach(el => el.remove()) for each name of names
RECURSIVE RemoveElements(_, _)
RemoveElements(nodes, names) ==
  IF nodes = << >> THEN << >>
  ELSE (IF Head(nodes).kind = "element" /\ Head(nodes).name \in names THEN << >>
        ELSE << [Head(nodes) EXCEPT !.children = RemoveElements(@, names)] >>)
       \o RemoveElements(Tail(nodes), names)

\* removeComments(node): the comment children go, the element children are
\* descended into.
RECURSIVE RemoveComments(_)
RemoveComments(nodes) ==
  IF nodes = << >> THEN << >>
  ELSE (IF Head(nodes).kind = "comment" THEN << >>
        ELSE << [Head(nodes) EXCEPT !.children = RemoveComments(@)] >>)
       \o RemoveComments(Tail(nodes))

\* result.replace(/>\s+</g, '><'): the white space that has ">" before it
\* and "<" after it goes.
Minify(s) ==
  LET Between(before, after) ==
        before >= 1 /\ s[before] = ">" /\ after <= Len(s) /\ s[after] = "<"
      Replaced(i) ==
        /\ s[i] \in RegexSpace
        /\ Between(FindLastNot(s, i, RegexSpace), FindNot(s, i, RegexSpace))
      Chars(kept) == [k \in 1..Len(kept) |-> s[kept[k]]]
  IN  Chars(SelectSeq([i \in 1..Len(s) |-> i], LAMBDA i : ~Replaced(i)))

\* The function VisibleHtmlTool evaluates in the page to filter html.
FilterHtml(html, removeScripts, removeComments, removeStyles, removeMeta, minify) ==
  LET Result(html2) == IF minify THEN Trim(Minify(html2)) ELSE html2
      WithoutComments(nodes) == IF removeComments THEN RemoveComments(nodes) ELSE nodes
      Without(names) ==
        WithoutComments(RemoveElements(<< ParseFromString(html) >>, names))[1]
  IN  Result(SerializeNode(Without((IF removeScripts THEN {<<"s","c","r","i","p","t">>} ELSE {})
                                   \cup (IF removeStyles THEN {<<"s","t","y","l","e">>} ELSE {})
                                   \cup (IF removeMeta THEN {<<"m","e","t","a">>} ELSE {})),
                           FALSE))

-----------------------------------------------------------------------------
(* The function VisibleTextTool evaluates in the page. *)

\* acceptNode: the computed style of the text node's parent element
AcceptNode(el) == el.display # "none" /\ el.visibility # "hidden"

\* The text nodes walker.nextNode() returns, from element i on.
RECURSIVE WalkedTexts(_, _)
WalkedTexts(d, i) ==
  IF i > Len(d) THEN << >>
  ELSE (IF AcceptNode(d[i]) THEN d[i].childTexts ELSE << >>) \o WalkedTexts(d, i + 1)

\* The while loop: text += trimmedText + "\n" for each text node that is not
\* blank.
RECURSIVE CollectText(_, _)
CollectText(nodes, text) ==
  LET Added(trimmedText) ==
        IF trimmedText # << >> THEN text \o trimmedText \o << "\n" >> ELSE text
  IN  IF nodes = << >> THEN text
      ELSE CollectText(Tail(nodes), Added(Trim(Head(nodes))))

\* return text.trim()
VisibleText(d) == Trim(CollectText(WalkedTexts(d, 1), << >>))

-----------------------------------------------------------------------------
(* The executes in flight.  A call is the activation of one execute: its   *)
(* arguments, what it saw of the context when it checked it, its locals,   *)
(* the driver call it awaits and the outcome of that call.                 *)

\* The slots for executes that run at the same time.
Callers == {1, 2}

DefaultArgs ==
  [maxLength |-> [type |-> "absent", value |-> 0],
   selector |-> NULL, removeScripts |-> "absent", removeComments |-> FALSE,
   removeStyles |-> FALSE, removeMeta |-> FALSE, cleanHtml |-> FALSE,
   minify |-> FALSE,
   id |-> <<"1">>, text |-> NULL]

\* What a driver call that has not completed has produced.
NoReturn == [rejected |-> FALSE, cause |-> "none", value |-> << >>]

\* The promise of a driver call was rejected: the browser had disconnected,
\* the page was closed, or the driver failed for a reason of its own.
Rejected(cause) == [rejected |-> TRUE, cause |-> cause, value |-> << >>]

\* The promise of a driver call was fulfilled with v.
Resolved(v) == [rejected |-> FALSE, cause |-> "none", value |-> v]

NoCall ==
  [tool |-> "none", pc |-> "idle", req |-> "none", args |-> DefaultArgs,
   seen |-> [browser |-> "none", page |-> "none"], config |-> NoConfig,
   ret |-> NoReturn, text |-> << >>, handle |-> 0, pass |-> 0,
   fx |-> NoEffects, response |-> NoResponse]

\* An execute entered with arguments a, the context as it is now.
NewCall(tool, a) ==
  [NoCall EXCEPT !.tool = tool, !.pc = "running", !.args = a,
                 !.seen = [browser |-> browser, page |-> page]]

\* The slot a new execute takes: the first free one, if any.
FreeSlot ==
  LET free == {c \in Callers : c <= concurrency /\ calls[c].pc = "idle"}
  IN  IF free = {} THEN {} ELSE {SetMin(free)}

\* The execute returns (or rejects): its promise is settled.
Return(c, call) ==
  /\ returned' = [call EXCEPT !.pc = "done", !.req = "none"]
  /\ calls' = [calls EXCEPT ![c] = NoCall]

\* The execute suspends at `await` on the driver call req.
Await(c, call, req) ==
  /\ calls' = [calls EXCEPT ![c] = [call EXCEPT !.pc = "awaiting", !.req = req,
                                                !.ret = NoReturn]]
  /\ UNCHANGED returned

\* The driver call the execute awaits completes with outcome ret.
Resolve(c, call, ret) ==
  /\ calls' = [calls EXCEPT ![c] = [call EXCEPT !.pc = "resolved", !.ret = ret]]
  /\ UNCHANGED returned

Awaiting(c, tool, reqs) ==
  /\ calls[c].tool = tool
  /\ calls[c].pc = "awaiting"
  /\ calls[c].req \in reqs

Resumable(c, tool) ==
  /\ calls[c].tool = tool
  /\ calls[c].pc = "resolved"

\* A call on the page object rejects when the page is closed by the time the
\* call is carried out, or for a reason of the driver's own.
DriverRejects == evalFails \/ page # "open"

\* Why a call on the page object fails.
FailureCause ==
  IF browser # "connected" THEN "disconnected"
  ELSE IF page # "open" THEN "closed"
  ELSE "driver"

-----------------------------------------------------------------------------
(* The tools' execute methods. *)

\* Availability with the page checked before the browser.
AvailabilityPageFirst(b, p) ==
  IF p = "missing" \/ p = "closed" THEN "unavailable"
  ELSE IF b = "missing" \/ b = "disconnected" THEN "disconnected"
  ELSE "ok"

\* The two availability checks every Visible*Tool.execute starts with.
Availability(b, p) ==
  IF b = "missing" \/ b = "disconnected" THEN "disconnected"
  ELSE IF p = "missing" \/ p = "closed" THEN "unavailable"
  ELSE "ok"

Frame == UNCHANGED <<browser, page, evalFails, cfgSource, args, generated,
                     concurrency>>

NoPass == UNCHANGED <<dom, result, tagged, prevDom, prevResult, passes, streak,
                      mutations, located>>

\* An exception of the operation, as safeExecute receives it.
Threw(msg, cause) ==
  [threw |-> TRUE, error |-> msg, cause |-> cause, response |-> NoResponse]

\* A response the operation returned.
Gave(resp) == [threw |-> FALSE, error |-> "", cause |-> "none", response |-> resp]

\* The lines of resultStr: `${r.id}:${r.text}`
RenderLines(res) == [k \in 1..Len(res) |-> res[k].id \o <<":">> \o res[k].text]

\* VisibleTextTool.execute up to `await page.evaluate(...)`.
VisibleTextExecute ==
  /\ \E c \in FreeSlot :
       LET call  == NewCall("text", args)
           avail == Availability(browser, page)
       IN  IF avail = "disconnected"
           THEN Return(c, [call EXCEPT !.fx.resets = 1,
                                       !.response = createErrorResponse(NotConnectedMsg)])
           ELSE IF avail = "unavailable"
           THEN Return(c, [call EXCEPT !.response = createErrorResponse(PageClosedMsg)])
           ELSE Await(c, [call EXCEPT !.fx.evals = 1], "evaluate")
  /\ Frame /\ NoPass

\* The text walk in the page, over the page as it is when the walk runs.
VisibleTextEvaluate ==
  /\ \E c \in Callers :
       /\ Awaiting(c, "text", {"evaluate"})
       /\ Resolve(c, calls[c],
                  IF DriverRejects THEN Rejected(FailureCause) ELSE Resolved(VisibleText(dom)))
  /\ Frame /\ NoPass

\* VisibleTextTool.execute after the await: truncate logic, or the catch.
VisibleTextReturn ==
  /\ \E c \in Callers :
       /\ Resumable(c, "text")
       /\ LET call == calls[c]
          IN  IF call.ret.rejected
              THEN Return(c, safeExecute(call, Gave(
                       createErrorResponse("Failed to get visible text content"))))
              ELSE Return(c, safeExecute([call EXCEPT !.text = call.ret.value], Gave(
                       createSuccessResponse("Visible text content:", 0,
                         Truncate(call.ret.value, EffectiveMaxLength(call.args),
                                  TextMarker)))))
  /\ Frame /\ NoPass

\* const removeScripts = args.removeScripts === false ? false : true
RemoveScripts(a) == a.removeScripts # "false"

\* removeScripts || cleanHtml || removeComments || ... || minify
NeedsFilter(a) ==
  \/ RemoveScripts(a)
  \/ a.removeComments
  \/ a.removeStyles
  \/ a.removeMeta
  \/ a.cleanHtml
  \/ a.minify

\* page.$(selector): the first element of the document, in document order,
\* that matches, or null.  (The head element is not among the candidates.)
QuerySelector(d, sel) ==
  LET found == {i \in (-1)..Len(d) : Matches(sel, NodeAt(d, i))}
  IN  IF found = {} THEN NULL ELSE Some(SetMin(found))

\* VisibleHtmlTool.execute up to its first await: page.$(selector) when a
\* selector is given, page.content() otherwise.
VisibleHtmlExecute ==
  /\ \E c \in FreeSlot :
       LET call  == NewCall("html", args)
           avail == Availability(browser, page)
       IN  IF avail = "disconnected"
           THEN Return(c, [call EXCEPT !.fx.resets = 1,
                                       !.response = createErrorResponse(NotConnectedMsg)])
           ELSE IF avail = "unavailable"
           THEN Return(c, [call EXCEPT !.response = createErrorResponse(PageClosedMsg)])
           ELSE Await(c, [call EXCEPT !.fx.evals = 1],
                      IF args.selector # NULL THEN "$" ELSE "content")
  /\ Frame /\ NoPass

\* page.$(selector)
VisibleHtmlQuery ==
  /\ \E c \in Callers :
       /\ Awaiting(c, "html", {"$"})
       /\ Resolve(c, calls[c],
                  IF DriverRejects THEN Rejected(FailureCause)
                  ELSE Resolved(QuerySelector(dom, calls[c].args.selector[1])))
  /\ Frame /\ NoPass

\* page.evaluate((el) => el.outerHTML, element) or page.content(), over the
\* page as it is when the call is carried out.
VisibleHtmlRead ==
  /\ \E c \in Callers :
       /\ Awaiting(c, "html", {"outerHTML", "content"})
       /\ Resolve(c, calls[c],
                  IF DriverRejects THEN Rejected(FailureCause)
                  ELSE IF calls[c].req = "outerHTML"
                  THEN Resolved(OuterHTML(dom, calls[c].handle))
                  ELSE Resolved(PageContent(dom)))
  /\ Frame /\ NoPass

\* The filter evaluation: the string the execute read is parsed, filtered
\* and serialized again in the page.
VisibleHtmlFilter ==
  /\ \E c \in Callers :
       /\ Awaiting(c, "html", {"filter"})
       /\ LET a == calls[c].args
          IN  Resolve(c, calls[c],
                      IF DriverRejects THEN Rejected(FailureCause)
                      ELSE Resolved(FilterHtml(calls[c].text,
                                               RemoveScripts(a) \/ a.cleanHtml,
                                               a.removeComments \/ a.cleanHtml,
                                               a.removeStyles \/ a.cleanHtml,
                                               a.removeMeta \/ a.cleanHtml,
                                               a.minify)))
  /\ Frame /\ NoPass

\* VisibleHtmlTool.execute after each await: the next driver call, the
\* truncate logic and the response, or the catch.
VisibleHtmlResume ==
  /\ \E c \in Callers :
       /\ Resumable(c, "html")
       /\ LET call     == calls[c]
              finished == safeExecute([call EXCEPT !.text = call.ret.value], Gave(
                            createSuccessResponse("HTML content:", 0,
                              Truncate(call.ret.value, EffectiveMaxLength(call.args),
                                       HtmlMarker))))
          IN  IF call.ret.rejected
              THEN Return(c, safeExecute(call, Gave(
                       createErrorResponse("Failed to get visible HTML content"))))
              ELSE IF call.req = "$"
              THEN IF call.ret.value = NULL
                   THEN Return(c, safeExecute(call, Gave(
                            createErrorResponse("Element with selector not found"))))
                   ELSE Await(c, [call EXCEPT !.handle = call.ret.value[1],
                                              !.fx.evals = @ + 1], "outerHTML")
              ELSE IF call.req \in {"outerHTML", "content"} /\ NeedsFilter(call.args)
              THEN Await(c, [call EXCEPT !.text = call.ret.value, !.fx.evals = @ + 1],
                         "filter")
              ELSE Return(c, finished)
  /\ Frame /\ NoPass

\* The VisibleTagTool executes that have yet to run their pass in the page.
PassesPending ==
  Cardinality({c \in Callers : calls[c].tool = "tag" /\ calls[c].pc = "awaiting"})

\* VisibleTagTool.execute up to `await page.evaluate(..., config)`.
VisibleTagExecute ==
  /\ passes + PassesPending < MaxPasses
  /\ \E c \in FreeSlot :
       LET call  == NewCall("tag", args)
           avail == Availability(browser, page)
           rc    == readVisibleTagConfig(cfgSource)
       IN  IF avail = "disconnected"
           THEN Return(c, [call EXCEPT !.fx.resets = 1,
                                       !.response = createErrorResponse(NotConnectedMsg)])
           ELSE IF avail = "unavailable"
           THEN Return(c, [call EXCEPT !.response = createErrorResponse(PageClosedMsg)])
           ELSE IF rc.threw
           THEN Return(c, [call EXCEPT !.fx.cfgReads = 1, !.response = Thrown(rc.error)])
           ELSE Await(c, [call EXCEPT !.fx.cfgReads = 1, !.fx.evals = 1,
                                      !.config = rc.config], "evaluate")
  /\ Frame /\ NoPass

\* The tagging pass in the page: one uninterrupted run of the evaluated function.
VisibleTagEvaluate ==
  /\ \E c \in Callers :
       /\ Awaiting(c, "tag", {"evaluate"})
       /\ IF DriverRejects
          THEN /\ Resolve(c, calls[c], Rejected(FailureCause))
               /\ NoPass
          ELSE LET pass == TagPass(dom, calls[c].config)
               IN  /\ Resolve(c, [calls[c] EXCEPT !.fx.writes = Len(pass.tagged),
                                                  !.pass = passes + 1],
                              Resolved(pass.results))
                   /\ dom' = pass.dom
                   /\ result' = pass.results
                   /\ tagged' = pass.tagged
                   /\ prevDom' = dom
                   /\ prevResult' = result
                   /\ passes' = passes + 1
                   /\ streak' = IF streak < 2 THEN streak + 1 ELSE 2
                   /\ located' = [located EXCEPT !.fresh = FALSE]
                   /\ UNCHANGED mutations
  /\ Frame

\* VisibleTagTool.execute after the await: resultStr and the response.
VisibleTagReturn ==
  /\ \E c \in Callers :
       /\ Resumable(c, "tag")
       /\ LET call == calls[c]
          IN  IF call.ret.rejected
              THEN Return(c, safeExecute(call, Threw("page.evaluate: rejected",
                                                      call.ret.cause)))
              ELSE Return(c, safeExecute(call, Gave(
                       createSuccessResponse("Tagged <count> elements with data-tag-id",
                         Len(call.ret.value), RenderLines(call.ret.value)))))
  /\ Frame /\ NoPass

IdPool == {ToDecimal(n) : n \in 1..MaxElems}

\* LocatorTool.execute up to `await page.evaluate(...)`.  Without a page
\* object the operation fails before any driver call.
LocatorExecute ==
  /\ \E c \in FreeSlot :
       LET call == NewCall("locator", args)
       IN  IF page = "missing"
           THEN Return(c, safeExecute(call, Threw("page is not available", FailureCause)))
           ELSE Await(c, [call EXCEPT !.fx.evals = 1], "evaluate")
  /\ Frame /\ NoPass

\* document.querySelector and ijs.generateSelector in the page.
LocatorEvaluate ==
  /\ \E c \in Callers :
       /\ Awaiting(c, "locator", {"evaluate"})
       /\ IF DriverRejects
          THEN /\ Resolve(c, calls[c], Rejected(FailureCause))
               /\ UNCHANGED located
          ELSE /\ Resolve(c, calls[c], Resolved(generated))
               /\ located' = [id    |-> calls[c].args.id,
                              elem  |-> QuerySelectorTagId(dom, calls[c].args.id),
                              fresh |-> TRUE]
  /\ Frame
  /\ UNCHANGED <<dom, result, tagged, prevDom, prevResult, passes, streak, mutations>>

\* LocatorTool.execute after the await: sanitizeSelectors and the response.
LocatorReturn ==
  /\ \E c \in Callers :
       /\ Resumable(c, "locator")
       /\ LET call == calls[c]
          IN  IF call.ret.rejected
              THEN Return(c, safeExecute(call, Threw("page.evaluate: rejected",
                                                      call.ret.cause)))
              ELSE Return(c, safeExecute(call, Gave(
                       createSuccessResponse("Tag element locator is:", 0,
                                             sanitizeSelectors(call.ret.value)))))
  /\ Frame /\ NoPass

\* node.textContent of element i, from element j on (document order); an
\* element's text nodes come before its child elements.
RECURSIVE TextContentFrom(_, _, _)
TextContentFrom(d, i, j) ==
  IF j > Len(d) THEN << >>
  ELSE (IF i \in AncestorsOrSelf(d, j) THEN Concat(d[j].childTexts) ELSE << >>)
       \o TextContentFrom(d, i, j + 1)

TextContent(d, i) == TextContentFrom(d, i, i)

S_He == <<"H","e">>

\* args.text: absent, empty, a text of the page, a text it does not have
TextPool == {NULL, Some(<< >>), Some(S_He), Some(S_X)}

\* ExpectTextTool.execute up to `await page.waitForSelector(...)`.
ExpectTextExecute ==
  /\ \E c \in FreeSlot :
       LET call == NewCall("expect", args)
       IN  IF ~Truthy(args.text)
           THEN Return(c, safeExecute(call, Gave(
                    createErrorResponse("Missing required parameters: text must be provided"))))
           ELSE IF page = "missing"
           THEN Return(c, safeExecute(call, Threw("page is not available", FailureCause)))
           ELSE Await(c, [call EXCEPT !.fx.evals = 1], "waitForSelector")
  /\ Frame /\ NoPass

\* page.waitForSelector(`text=${args.text}`): the driver resolves to an
\* element whose text content holds the text, or rejects when the wait times
\* out with no such element.
ExpectTextWait ==
  /\ \E c \in Callers :
       /\ Awaiting(c, "expect", {"waitForSelector"})
       /\ LET holders == {i \in 1..Len(dom) :
                            Includes(TextContent(dom, i), calls[c].args.text[1])}
          IN  IF DriverRejects \/ holders = {}
              THEN Resolve(c, calls[c], Rejected(FailureCause))
              ELSE \E i \in holders : Resolve(c, calls[c], Resolved(i))
  /\ Frame /\ NoPass

\* elementHandle.textContent()
ExpectTextContent ==
  /\ \E c \in Callers :
       /\ Awaiting(c, "expect", {"textContent"})
       /\ Resolve(c, calls[c],
                  IF DriverRejects THEN Rejected(FailureCause)
                  ELSE Resolved(TextContent(dom, calls[c].handle)))
  /\ Frame /\ NoPass

\* ExpectTextTool.execute after each await.
ExpectTextResume ==
  /\ \E c \in Callers :
       /\ Resumable(c, "expect")
       /\ LET call == calls[c]
          IN  IF call.ret.rejected
              THEN Return(c, safeExecute(call, Threw("driver call rejected",
                                                      call.ret.cause)))
              ELSE IF call.req = "waitForSelector"
              THEN Await(c, [call EXCEPT !.handle = call.ret.value, !.fx.evals = @ + 1],
                         "textContent")
              ELSE Return(c, safeExecute([call EXCEPT !.text = call.ret.value], Gave(
                       createSuccessResponse(
                         "Successfully located element containing text:", 0,
                         call.ret.value))))
  /\ Frame /\ NoPass

-----------------------------------------------------------------------------
(* What the browser and the page do on their own, at any moment: between   *)
(* executes and while an execute is suspended.                             *)

OnItsOwn ==
  UNCHANGED <<evalFails, cfgSource, args, generated, concurrency, calls, returned,
              result, tagged, prevDom, prevResult, passes>>

\* browser.isConnected() turns false; the pages of the browser are closed
\* with it.
BrowserDisconnect ==
  /\ browser = "connected"
  /\ browser' = "disconnected"
  /\ page' = IF page = "open" THEN "closed" ELSE page
  /\ OnItsOwn
  /\ UNCHANGED <<dom, streak, mutations, located>>

\* page.isClosed() turns true.
PageClose ==
  /\ page = "open"
  /\ page' = "closed"
  /\ OnItsOwn
  /\ UNCHANGED <<browser, dom, streak, mutations, located>>

Mutated ==
  /\ mutations < MaxMutations
  /\ mutations' = mutations + 1
  /\ streak' = 0
  /\ located' = [located EXCEPT !.fresh = FALSE]
  /\ OnItsOwn
  /\ UNCHANGED <<browser, page>>

ChangedTexts == { << >>, << S_X >> }

\* The text nodes of an element are replaced.
TextChange ==
  /\ \E i \in 1..Len(dom) : \E t \in ChangedTexts :
       /\ dom[i].childTexts # t
       /\ dom' = [dom EXCEPT ![i].childTexts = t]
  /\ Mutated

HideElement ==
  /\ \E i \in 1..Len(dom) :
       /\ dom[i].display # "none"
       /\ dom' = [dom EXCEPT ![i].display = "none", ![i].rects = 0]
  /\ Mutated

ShowElement ==
  /\ \E i \in 1..Len(dom) :
       /\ dom[i].display = "none"
       /\ dom' = [dom EXCEPT ![i].display = "block", ![i].rects = 1]
  /\ Mutated

\* The element keeps its place and its data-tag-id and loses what labelled it.
LoseLabel ==
  /\ \E i \in 1..Len(dom) :
       /\ dom[i] # [Elem(dom[i].tagName) EXCEPT !.parent = dom[i].parent,
                                                !.dataTagId = dom[i].dataTagId,
                                                !.display = dom[i].display,
                                                !.rects = dom[i].rects]
       /\ dom' = [dom EXCEPT ![i] =
                    [Elem(dom[i].tagName) EXCEPT !.parent = dom[i].parent,
                                                 !.dataTagId = dom[i].dataTagId,
                                                 !.display = dom[i].display,
                                                 !.rects = dom[i].rects]]
  /\ Mutated

\* A childless element is removed; the later elements move up one place.
RemoveElement ==
  /\ \E i \in 1..Len(dom) :
       /\ \A j \in 1..Len(dom) : dom[j].parent # i
       /\ dom' = [k \in 1..(Len(dom) - 1) |->
                    LET e == IF k < i THEN dom[k] ELSE dom[k + 1]
                    IN  [e EXCEPT !.parent = IF e.parent > i THEN e.parent - 1
                                              ELSE e.parent]]
  /\ Mutated

-----------------------------------------------------------------------------
(* Pages and configurations the specifications start from. *)

TextDiv == [Elem(S_DIV) EXCEPT !.childTexts = <<S_blank, S_Hello>>]

SearchInput == [Elem(S_INPUT) EXCEPT !.placeholder = Some(S_Search), !.id = Some(S_q)]

SidebarDiv == [Elem(S_DIV) EXCEPT !.classList = <<S_sidebar>>, !.childTexts = <<S_X>>]

EmptySpan == Elem(S_SPAN)

TransparentDiv == [TextDiv EXCEPT !.opacity = "0"]

SvgElem == [Elem(S_SVG) EXCEPT !.html = FALSE]

ElementPool == {TextDiv, SearchInput, SidebarDiv, EmptySpan, TransparentDiv}

HiddenDiv == [TextDiv EXCEPT !.display = "none", !.rects = 0]

InvisibleDiv == [TextDiv EXCEPT !.visibility = "hidden"]

MutationPool == {TextDiv, SearchInput, HiddenDiv}

RECURSIVE AncOf(_, _)
AncOf(p, i) == IF i = 0 THEN {0} ELSE {i} \cup AncOf(p, p[i])

\* The parent maps of the trees of n elements numbered in pre-order.
Shapes(n) ==
  { p \in [1..n -> 0..n] :
      \A i \in 1..n : /\ p[i] < i
                      /\ i > 1 => p[i] \in AncOf(p, i - 1) }

\* d is a page of at most max elements, each drawn from pool.
IsPage(d, pool, max) ==
  \E n \in 0..max : \E p \in Shapes(n) : \E k \in [1..n -> pool] :
     d = [i \in 1..n |-> [k[i] EXCEPT !.parent = p[i]]]

ClassSel(name) == [kind |-> "class", name |-> name]

TagSel(name) == [kind |-> "tag", name |-> name]

AttrSel == [kind |-> "attr", name |-> << >>]

NoNumber == [isNumber |-> FALSE, value |-> 0]

Number(n) == [isNumber |-> TRUE, value |-> n]

Json(excluded, keywords, special, maxLen) ==
  [excludedIsArray |-> TRUE, iconIsArray |-> TRUE, specialIsArray |-> TRUE,
   excludedSelectors |-> excluded, iconClassKeywords |-> keywords,
   specialTagNames |-> special, directTextMaxLen |-> maxLen]

Source(json) == [env |-> "set", file |-> "present", json |-> json]

JsonA == Json(<<ClassSel(S_sidebar)>>, <<S_delete>>, <<<<"s","p","a","n">>>>, NoNumber)

JsonB == Json(<<AttrSel>>, << >>, << >>, Number(2))

JsonC == Json(<<TagSel(<<"d","i","v">>)>>, <<<< >>, S_delete>>, <<<<"i","n","p","u","t">>>>, Number(-1))

JsonD == Json(<<TagSel(<<"h","t","m","l">>)>>, << >>, << >>, NoNumber)

ConfigPool == {Source(JsonA), Source(JsonB)}

LabelConfigPool == {Source(JsonA), Source(JsonB), Source(JsonC), Source(JsonD)}

BadSourcePool ==
  { [env |-> "unset", file |-> "present", json |-> JsonA],
    [env |-> "set", file |-> "absent", json |-> JsonA],
    [env |-> "set", file |-> "unparsable", json |-> JsonA],
    Source([JsonA EXCEPT !.excludedIsArray = FALSE]),
    Source([JsonA EXCEPT !.iconIsArray = FALSE]),
    Source([JsonA EXCEPT !.specialIsArray = FALSE]) }

NoGenerated == [selectorsIsArray |-> TRUE, selectors |-> << >>, selector |-> NULL]

\* What every specification starts with: nothing has run yet.
Idle ==
  /\ calls = [c \in Callers |-> NoCall]
  /\ returned = NoCall
  /\ result = << >>
  /\ tagged = << >>
  /\ prevDom = dom
  /\ prevResult = << >>
  /\ passes = 0
  /\ streak = 0
  /\ mutations = 0
  /\ located = [id |-> << >>, elem |-> 0, fresh |-> FALSE]

Available ==
  /\ browser = "connected"
  /\ page = "open"
  /\ evalFails = FALSE

-----------------------------------------------------------------------------
(* Tagging passes over every page of at most MaxElems elements. *)

InitTag ==
  /\ Available
  /\ concurrency = 1
  /\ cfgSource \in ConfigPool
  /\ IsPage(dom, ElementPool, MaxElems)
  /\ args = DefaultArgs
  /\ generated = NoGenerated
  /\ Idle

NextTag ==
  \/ VisibleTagExecute
  \/ VisibleTagEvaluate
  \/ VisibleTagReturn

SpecTag == InitTag /\ [][NextTag]_vars

-----------------------------------------------------------------------------
(* One element with every combination of the attributes the label          *)
(* strategies read.                                                         *)

AttrValues == {NULL, Some(<< >>), Some(S_blank), Some(S_X), Some(S_Y)}

FewAttrValues == {NULL, Some(S_blank), Some(S_Y)}

LabelElements ==
  { [Elem(t) EXCEPT !.placeholder = ph, !.dataPlaceholder = dph, !.ariaLabel = al,
                    !.name = nm, !.title = ti[1], !.id = ti[2],
                    !.classList = cl, !.childTexts = tx] :
      t \in {S_DIV, S_INPUT}, ph \in AttrValues, dph \in AttrValues,
      al \in FewAttrValues, nm \in FewAttrValues,
      ti \in {<<NULL, NULL>>, <<NULL, Some(S_q)>>, <<Some(S_Y), Some(S_q)>>},
      cl \in {<< >>, <<S_sidebar>>, <<S_sidebar, S_icon_delete_btn>>},
      tx \in {<< >>, <<S_Hello>>} }

InitLabel ==
  /\ Available
  /\ concurrency = 1
  /\ cfgSource \in LabelConfigPool
  /\ \E e \in LabelElements \cup {SvgElem, TransparentDiv, HiddenDiv, InvisibleDiv} :
       dom = << e >>
  /\ args = DefaultArgs
  /\ generated = NoGenerated
  /\ Idle

SpecLabel == InitLabel /\ [][NextTag]_vars

-----------------------------------------------------------------------------
(* Text and HTML extraction over pages with every text of up to            *)
(* MaxContentLen characters and every maxLength argument.                  *)

RECURSIVE StringsOver(_, _)
StringsOver(alphabet, n) ==
  IF n = 0 THEN { << >> }
  ELSE LET shorter == StringsOver(alphabet, n - 1)
       IN  shorter \cup { Append(w, c) : w \in shorter, c \in alphabet }

Repeat(c, n) == [i \in 1..n |-> c]

Div(texts) == [Elem(S_DIV) EXCEPT !.childTexts = texts]

\* <script>X</script>, which the browser's style sheet does not display
ScriptElem ==
  [Elem(S_SCRIPT) EXCEPT !.display = "none", !.rects = 0, !.childTexts = << S_X >>]

Under(el, p) == [el EXCEPT !.parent = p]

\* Pages with one text node, and pages with several text nodes, a hidden
\* parent, a script, nested elements and a line break inside a text.
ExtractionPages ==
  { << >> }
  \cup { << Div(<< t >>) >> : t \in StringsOver({"a", " "}, MaxContentLen) }
  \cup { << Div(<< <<"a">>, <<" ", "a">> >>) >>,
         << Div(<< <<"a", "\n", "a">> >>) >>,
         << HiddenDiv, Under(Div(<< <<"a">> >>), 1) >>,
         << InvisibleDiv >>,
         << TextDiv, Under(SearchInput, 1) >>,
         << Div(<< <<"a">> >>), ScriptElem >>,
         << EmptySpan, Under(Div(<< S_Y >>), 1), ScriptElem >> }

MaxLengthArgs ==
  { [type |-> "absent", value |-> 0], [type |-> "string", value |-> 0], NaN, Infinity }
  \cup { Integer(v) : v \in (-2)..(MaxContentLen + 1) }

\* maxLength arguments around the length of the page's HTML
NearHtmlLength(d) ==
  { Integer(Len(OuterHTML(d, -1)) + k) : k \in (-1)..1 }

SelectorArgs == { NULL, Some(TagSel(<<"d","i","v">>)), Some(TagSel(<<"s","p","a","n">>)) }

InitTrunc ==
  /\ Available
  /\ concurrency = 1
  /\ cfgSource = Source(JsonA)
  /\ generated = NoGenerated
  /\ \/ /\ dom \in ExtractionPages
        /\ \E ml \in MaxLengthArgs \cup NearHtmlLength(dom), sel \in SelectorArgs,
              rs \in {"absent", "false"} :
             args = [DefaultArgs EXCEPT !.maxLength = ml, !.selector = sel,
                                        !.removeScripts = rs]
     \/ /\ dom \in { << TextDiv, Under(SearchInput, 1), ScriptElem >>,
                      << EmptySpan, Under(Div(<< S_Y >>), 1), ScriptElem >> }
        /\ \E sel \in SelectorArgs, rs \in {"absent", "false"}, mn \in BOOLEAN,
              ch \in BOOLEAN :
             args = [DefaultArgs EXCEPT !.selector = sel, !.removeScripts = rs,
                                        !.minify = mn, !.cleanHtml = ch]
     \/ /\ dom \in { << Div(<< Repeat("a", DefaultMaxLength) >>) >>,
                      << Div(<< Repeat("a", DefaultMaxLength + 1) >>) >> }
        /\ \E ml \in {m \in MaxLengthArgs : m.type # "number"},
              rs \in {"absent", "false"} :
             args = [DefaultArgs EXCEPT !.maxLength = ml, !.removeScripts = rs]
  /\ Idle

NextTrunc ==
  \/ VisibleTextExecute
  \/ VisibleTextEvaluate
  \/ VisibleTextReturn
  \/ VisibleHtmlExecute
  \/ VisibleHtmlQuery
  \/ VisibleHtmlRead
  \/ VisibleHtmlFilter
  \/ VisibleHtmlResume
  \/ TextChange

SpecTrunc == InitTrunc /\ [][NextTrunc]_vars

-----------------------------------------------------------------------------
(* LocatorTool over every list of candidates from a pool of selectors. *)

S_div_empty_attr == <<"d","i","v","[","d","a","t","a","-","x","=","\"","\"","]">>

S_button_ok == <<"b","u","t","t","o","n",".","o","k">>

SelectorPool ==
  { S_div_empty_attr,
    S_button_ok,
    <<" ">>,
    <<"a", "U+0001">>,
    <<"=", "\"", "U+E000", "\"">>,
    <<"U+0001">>,
    <<"=", "\t", "\"", "\"">>,
    <<"\t", "b">> }

GeneratedResults ==
  { [selectorsIsArray |-> TRUE, selectors |-> l, selector |-> NULL] :
      l \in UNION { [1..n -> SelectorPool] : n \in 0..MaxSelectors } }
  \cup
  { [selectorsIsArray |-> FALSE, selectors |-> << >>, selector |-> x] :
      x \in {NULL, Some(<< >>)} \cup { Some(c) : c \in SelectorPool } }

TaggedPage == << [TextDiv EXCEPT !.dataTagId = Some(<<"1">>)],
                 [SearchInput EXCEPT !.dataTagId = Some(<<"2">>)] >>

InitSan ==
  /\ Available
  /\ concurrency = 1
  /\ cfgSource = Source(JsonA)
  /\ dom = TaggedPage
  /\ \E id \in IdPool : args = [DefaultArgs EXCEPT !.id = id]
  /\ generated \in GeneratedResults
  /\ Idle

NextSan ==
  \/ LocatorExecute
  \/ LocatorEvaluate
  \/ LocatorReturn

SpecSan == InitSan /\ [][NextSan]_vars

-----------------------------------------------------------------------------
(* Every tool under every state of the browser, the page and the           *)
(* configuration source.                                                    *)

InitAvail ==
  /\ \/ /\ concurrency = 1
        /\ browser \in {"missing", "disconnected", "connected"}
        /\ page \in {"missing", "closed", "open"}
        /\ evalFails \in BOOLEAN
        /\ cfgSource \in BadSourcePool \cup {Source(JsonA)}
        /\ \E t \in TextPool : args = [DefaultArgs EXCEPT !.selector = Some(TagSel(<<"d","i","v">>)), !.text = t]
     \/ /\ concurrency = 2
        /\ Available
        /\ cfgSource = Source(JsonA)
        /\ args = [DefaultArgs EXCEPT !.selector = Some(TagSel(<<"d","i","v">>)), !.text = Some(S_He)]
  /\ dom = << TextDiv, [SearchInput EXCEPT !.parent = 1] >>
  /\ generated = [NoGenerated EXCEPT !.selectors = <<S_button_ok>>]
  /\ Idle

NextAvail ==
  \/ VisibleTextExecute
  \/ VisibleTextEvaluate
  \/ VisibleTextReturn
  \/ VisibleHtmlExecute
  \/ VisibleHtmlQuery
  \/ VisibleHtmlRead
  \/ VisibleHtmlFilter
  \/ VisibleHtmlResume
  \/ VisibleTagExecute
  \/ VisibleTagEvaluate
  \/ VisibleTagReturn
  \/ LocatorExecute
  \/ LocatorEvaluate
  \/ LocatorReturn
  \/ ExpectTextExecute
  \/ ExpectTextWait
  \/ ExpectTextContent
  \/ ExpectTextResume
  \/ BrowserDisconnect
  \/ PageClose

SpecAvail == InitAvail /\ [][NextAvail]_vars

-----------------------------------------------------------------------------
(* Tagging passes and locator lookups with DOM mutations between and      *)
(* during them.                                                            *)

AppendElement ==
  /\ Len(dom) < MaxElems
  /\ \E e \in MutationPool : \E p \in AncestorsOrSelf(dom, Len(dom)) \ {-1} :
       dom' = Append(dom, [e EXCEPT !.parent = p])
  /\ Mutated

InitMut ==
  /\ Available
  /\ concurrency = 2
  /\ cfgSource = Source(JsonA)
  /\ IsPage(dom, MutationPool, MaxElems - 1)
  /\ \E id \in IdPool : args = [DefaultArgs EXCEPT !.id = id]
  /\ generated = [NoGenerated EXCEPT !.selectors = <<S_button_ok>>]
  /\ Idle

NextMut ==
  \/ VisibleTagExecute
  \/ VisibleTagEvaluate
  \/ VisibleTagReturn
  \/ LocatorExecute
  \/ LocatorEvaluate
  \/ LocatorReturn
  \/ HideElement
  \/ ShowElement
  \/ LoseLabel
  \/ RemoveElement
  \/ AppendElement

SpecMut == InitMut /\ [][NextMut]_vars

-----------------------------------------------------------------------------
(* Properties.  After a tagging pass in the page with no mutation since    *)
(* (streak >= 1), prevDom is the DOM the pass started from, dom the DOM it  *)
(* left, result its records and tagged the elements they were created for; *)
(* the execute that ran pass number n carries pass = n.                     *)

PassDone == streak >= 1

Cfg == readVisibleTagConfig(cfgSource).config

\* The DOM as the walker found it on reaching element i: the elements before
\* i as the pass left them, i and the later ones as they were.
VisitView(i) ==
  [j \in 1..Len(prevDom) |-> IF j < i THEN dom[j] ELSE prevDom[j]]

TaggedSet == { tagged[k] : k \in 1..Len(tagged) }

\* The label the pass resolves for each element: null for an invisible one.
Labels ==
  [i \in 1..Len(prevDom) |->
     IF isVisible(prevDom[i]) THEN MarkerText(VisitView(i), i, Cfg) ELSE NULL]

\* C1: a tagging pass returns exactly the visible elements with a non-empty
\* resolved label, in document order, the k-th record with id String(k);
\* no other element gets a data-tag-id in the pass, and the reported count
\* is the number of records.
C1_TagPassExact ==
  /\ PassDone =>
       LET labels   == Labels
           expected == { i \in 1..Len(prevDom) : Truthy(labels[i]) }
       IN  /\ Len(dom) = Len(prevDom)
           /\ Len(result) = Cardinality(expected)
           /\ Len(tagged) = Len(result)
           /\ \A k \in 1..Len(tagged) :
                /\ tagged[k] \in expected
                /\ k > 1 => tagged[k - 1] < tagged[k]
                /\ result[k].id = ToDecimal(k)
                /\ k < 10 => result[k].id = << Digits[k + 1] >>
                /\ result[k].text # << >>
                /\ result[k].text = labels[tagged[k]][1]
                /\ dom[tagged[k]].dataTagId = Some(result[k].id)
           /\ \A i \in 1..Len(prevDom) :
                i \notin expected =>
                  /\ i \notin TaggedSet
                  /\ dom[i].dataTagId = prevDom[i].dataTagId
           /\ \A c \in Callers :
                (Resumable(c, "tag") /\ calls[c].pass = passes) =>
                  calls[c].ret.value = result
           /\ (returned.tool = "tag" /\ returned.pass = passes) =>
                returned.ret.value = result
  /\ (returned.tool = "tag" /\ returned.response.kind = "success") =>
       /\ returned.response.count = Len(returned.ret.value)
       /\ returned.response.body = RenderLines(returned.ret.value)

\* A pass that tagged the first and the third element and skipped the
\* invisible element with direct text between them, and whose execute has
\* returned the two records.
C1_Witness ==
  /\ PassDone
  /\ returned.tool = "tag"
  /\ returned.pass = passes
  /\ returned.response.count = 2
  /\ Len(result) = 2
  /\ tagged = <<1, 3>>
  /\ ~isVisible(prevDom[2])
  /\ getDirectText(prevDom[2], Cfg) # NULL
  /\ dom[2].dataTagId = NULL
  /\ result[2].id = <<"2">>

\* C2: the label of a visible element is the result of the first strategy
\* that yields one, in the order special tag, placeholder/aria/name,
\* form-control title/id, icon class, direct text; the excluded-selector test
\* is applied only when the first four all fail.
C2_StrategyOrder ==
  (PassDone /\ Len(prevDom) = 1 /\ isVisible(prevDom[1])) =>
    LET el == prevDom[1]
        s1 == getSpecialTagText(el, Cfg)
        s2 == getPlaceholderOrNameText(el)
        s3 == getFormControlText(el)
        s4 == getIconClassText(el, Cfg)
        expected ==
          IF Truthy(s1) THEN s1
          ELSE IF Truthy(s2) THEN s2
          ELSE IF Truthy(s3) THEN s3
          ELSE IF Truthy(s4) THEN s4
          ELSE IF isExcluded(prevDom, 1, Cfg) THEN NULL
          ELSE getDirectText(el, Cfg)
    IN  /\ IF Truthy(expected)
           THEN result = << [id |-> <<"1">>, text |-> expected[1]] >>
           ELSE result = << >>
        /\ (/\ el.tagName = S_INPUT
            /\ el.placeholder = Some(S_X)
            /\ el.id = Some(S_q)
            /\ ~Truthy(s1))
           => result[1].text = <<"I","N","P","U","T",":","X">>

\* An excluded INPUT with a placeholder, a title and an id, an icon class and
\* direct text, labelled by its placeholder.
C2_Witness ==
  /\ PassDone
  /\ Len(prevDom) = 1
  /\ prevDom[1].tagName = S_INPUT
  /\ prevDom[1].placeholder = Some(S_X)
  /\ prevDom[1].id = Some(S_q)
  /\ prevDom[1].childTexts # << >>
  /\ Len(prevDom[1].classList) = 2
  /\ isExcluded(prevDom, 1, Cfg)
  /\ Len(result) = 1
  /\ result[1].text = <<"I","N","P","U","T",":","X">>

NoSignal(el) ==
  /\ ~Truthy(getSpecialTagText(el, Cfg))
  /\ ~Truthy(getPlaceholderOrNameText(el))
  /\ ~Truthy(getFormControlText(el))
  /\ ~Truthy(getIconClassText(el, Cfg))

\* C3: a visible element that matches an excluded selector itself or through
\* an ancestor and has no special, placeholder, form-control or icon signal
\* gets no record and no data-tag-id in the pass, whatever its direct text;
\* its descendants are still evaluated: one with a signal is tagged.
C3_ExcludedNoTag ==
  PassDone =>
    \A i \in 1..Len(prevDom) :
      (/\ isVisible(prevDom[i])
       /\ isExcluded(VisitView(i), i, Cfg)
       /\ NoSignal(prevDom[i]))
      => /\ i \notin TaggedSet
         /\ dom[i].dataTagId = prevDom[i].dataTagId
         /\ \A j \in 1..Len(prevDom) :
              (/\ j # i
               /\ i \in AncestorsOrSelf(prevDom, j)
               /\ isVisible(prevDom[j])
               /\ ~NoSignal(prevDom[j]))
              => j \in TaggedSet

\* An excluded visible element with direct text and no signal that was left
\* untagged, with a descendant that was tagged.
C3_Witness ==
  /\ PassDone
  /\ \E i \in 1..Len(prevDom) :
       /\ isVisible(prevDom[i])
       /\ isExcluded(VisitView(i), i, Cfg)
       /\ NoSignal(prevDom[i])
       /\ getDirectText(prevDom[i], Cfg) # NULL
       /\ i \notin TaggedSet
       /\ \E j \in TaggedSet : j # i /\ i \in AncestorsOrSelf(prevDom, j)

Extracted == returned.tool \in {"text", "html"} /\ returned.response.kind = "success"

MarkerOf(tool) == IF tool = "text" THEN TextMarker ELSE HtmlMarker

\* C4 as stated: for every maxLength that is a number, negative ones
\* included, and for the default, the emitted content is at most maxLength
\* plus the marker long, and a content of at most maxLength characters is
\* emitted unchanged.
C4_TruncationBound ==
  Extracted =>
    /\ AtMost(Len(returned.response.body), EffectiveMaxLength(returned.args),
              Len(MarkerOf(returned.tool)))
    /\ AtMost(Len(returned.text), EffectiveMaxLength(returned.args), 0) =>
         returned.response.body = returned.text

\* maxLength >= 0, which no negative number and not NaN satisfies
NotNegative(m) == m.type = "Infinity" \/ (m.type = "number" /\ m.value >= 0)

\* C4 amended: the same for every maxLength that is at least 0 (the default
\* 20000 when it is absent or not a number), which leaves out the negative
\* numbers and NaN; a longer content is cut to its first maxLength characters
\* followed by the marker.
C4_TruncationBoundNonNegative ==
  (Extracted /\ NotNegative(EffectiveMaxLength(returned.args))) =>
    /\ AtMost(Len(returned.response.body), EffectiveMaxLength(returned.args),
              Len(MarkerOf(returned.tool)))
    /\ AtMost(Len(returned.text), EffectiveMaxLength(returned.args), 0) =>
         returned.response.body = returned.text
    /\ ~AtMost(Len(returned.text), EffectiveMaxLength(returned.args), 0) =>
         returned.response.body =
           SubSeq(returned.text, 1, EffectiveMaxLength(returned.args).value)
           \o MarkerOf(returned.tool)

\* The text of a page, 20001 characters, cut to the default 20000 plus the
\* marker.
C4_Witness ==
  /\ Extracted
  /\ returned.tool = "text"
  /\ returned.args.maxLength.type = "absent"
  /\ returned.text = VisibleText(dom)
  /\ Len(returned.text) = DefaultMaxLength + 1
  /\ Len(returned.response.body) = DefaultMaxLength + Len(TextMarker)

Located == returned.tool = "locator" /\ returned.response.kind = "success"

\* The candidates of the preference order: (a) the originals with no bad
\* character and no empty-attribute pattern, (b) the candidates that are
\* valid and non-blank once cleaned.
StageA(sels) == { i \in 1..Len(sels) : ~hasBadChars(sels[i]) /\ isValid(sels[i]) }

StageB(sels) ==
  { i \in 1..Len(sels) :
      isValid(cleanSelector(sels[i])) /\ Trim(cleanSelector(sels[i])) # << >> }

ChosenIndex(sels) ==
  IF StageA(sels) # {} THEN SetMin(StageA(sels))
  ELSE IF StageB(sels) # {} THEN SetMin(StageB(sels))
  ELSE 1

\* The candidates other than the chosen one, cleaned, in their original order.
RestFollows(sels, out) ==
  /\ Len(out) = Len(sels)
  /\ \A k \in 2..Len(out) :
       out[k] = cleanSelector(sels[IF k - 1 < ChosenIndex(sels) THEN k - 1 ELSE k])

\* C5: the first element of the output is (a) the first original candidate
\* with no bad character and no empty attribute, else (b) the first cleaned
\* candidate that is valid and non-blank, else (c) the first original
\* candidate, as the comment over the fallback has it; the others follow,
\* cleaned, in their original order.
C5_FirstOriginalFallback ==
  (Located /\ Len(SelectorsOf(returned.ret.value)) > 0) =>
    LET sels == SelectorsOf(returned.ret.value)
        out  == returned.response.body
    IN  /\ out[1] = IF StageA(sels) # {} THEN sels[SetMin(StageA(sels))]
                    ELSE IF StageB(sels) # {} THEN cleanSelector(sels[SetMin(StageB(sels))])
                    ELSE sels[1]
        /\ RestFollows(sels, out)

Executed == returned.tool # "none"

\* C6: no failure of a tool invocation escapes execute as an exception.
C6_NeverThrows == Executed => returned.response.kind # "thrown"

\* What the availability checks of the three Visible*Tools give: with the
\* browser missing or disconnected when the execute is entered, one reset and
\* the connectivity error; with the browser connected and the page missing or
\* closed, the closed-page error and no reset; in both cases no driver call,
\* no config read and no data-tag-id written, and the execute goes no
\* further, so that an execute in flight has passed both checks and has
\* triggered no reset.
ChecksFirst ==
  /\ returned.tool \in {"text", "html", "tag"} =>
       /\ returned.seen.browser \in {"missing", "disconnected"} =>
            /\ returned.fx = [resets |-> 1, evals |-> 0, cfgReads |-> 0, writes |-> 0]
            /\ returned.response = createErrorResponse(NotConnectedMsg)
       /\ (returned.seen.browser = "connected"
             /\ returned.seen.page \in {"missing", "closed"}) =>
            /\ returned.fx = [resets |-> 0, evals |-> 0, cfgReads |-> 0, writes |-> 0]
            /\ returned.response = createErrorResponse(PageClosedMsg)
  /\ \A c \in Callers :
       calls[c].pc # "idle" =>
         /\ calls[c].fx.resets = 0
         /\ calls[c].tool \in {"text", "html", "tag"} =>
              calls[c].seen = [browser |-> "connected", page |-> "open"]

C8_Repeatable ==
  streak = 2 =>
    /\ result = prevResult
    /\ \A i \in 1..Len(dom) : dom[i].dataTagId = prevDom[i].dataTagId

\* The label the placeholder/aria/name strategy would give if each of the
\* four attributes were trimmed before the first non-empty one is taken.
FirstNonEmptyTrimmed(el) ==
  LET vals == << el.placeholder, el.dataPlaceholder, el.ariaLabel, el.name >>
      ok   == { n \in 1..4 : Trim(OrEmpty(vals[n])) # << >> }
  IN  IF ok = {} THEN NULL
      ELSE Some(el.tagName \o <<":">> \o Trim(vals[SetMin(ok)][1]))

\* C9: placeholder, data-placeholder, aria-label and name are read in that
\* order and the first whose trimmed value is non-empty supplies the label.
C9_FirstNonEmptyTrimmed ==
  (/\ PassDone
   /\ Len(prevDom) = 1
   /\ isVisible(prevDom[1])
   /\ ~Truthy(getSpecialTagText(prevDom[1], Cfg))
   /\ FirstNonEmptyTrimmed(prevDom[1]) # NULL)
  => /\ Len(result) = 1
     /\ result[1].text = FirstNonEmptyTrimmed(prevDom[1])[1]

\* C10: after a pass, every data-tag-id in the page is carried by one
\* element, one the pass recorded under that id, and LocatorTool's lookup of
\* an id the pass reported resolves to the element recorded under it.
C10_NoStaleIds ==
  PassDone =>
    /\ \A i \in 1..Len(dom) :
         dom[i].dataTagId # NULL =>
           \E k \in 1..Len(tagged) :
             tagged[k] = i /\ dom[i].dataTagId = Some(result[k].id)
    /\ \A i, j \in 1..Len(dom) :
         (i # j /\ dom[i].dataTagId # NULL) => dom[i].dataTagId # dom[j].dataTagId
    /\ located.fresh =>
         \A k \in 1..Len(result) : result[k].id = located.id => located.elem = tagged[k]

====
